---- MODULE Spec2Model ----
(***************************************************************************)
(* A model of the PRD-to-GitHub pipeline: the staged materializer          *)
(* (IssueGenerator.generateIssues and its helpers), the dependency linker  *)
(* and the staged decomposition loop of the create command.                *)
(*                                                                         *)
(* Every remote call (octokit / Anthropic) is one step whose outcome is    *)
(* chosen nondeterministically: success, or a failure carrying a status.   *)
(***************************************************************************)
EXTENDS Integers, Sequences, FiniteSets, TLC

\* Bound: how many remote calls of one run may fail.
MaxFailures == 2

----------------------------------------------------------------------------
\* The hierarchy model (types/schemas)

Deliverable(id, capabilityId, title, deps) ==
    [id |-> id, capabilityId |-> capabilityId, title |-> title,
     dependencies |-> deps]

Capability(id, initiativeId, title, sub, dels, tasks, deps) ==
    [id |-> id, initiativeId |-> initiativeId, title |-> title,
     complexity |-> "medium", shouldCreateSubIssues |-> sub,
     deliverables |-> dels, tasks |-> tasks, dependencies |-> deps]

Initiative(id, title, caps) ==
    [id |-> id, title |-> title, capabilities |-> caps]

\* One initiative with two expanding capabilities, one with a checklist
\* capability (the uniform shape of the tests' fixture, widened).
ProjectUniform ==
    [initiatives |-> <<
        Initiative("initiative-1", "I1", <<
            Capability("capability-1-1", "initiative-1", "C11", TRUE,
                <<Deliverable("deliverable-1-1-1", "capability-1-1", "D111", <<>>)>>,
                <<>>, <<>>),
            Capability("capability-1-2", "initiative-1", "C12", TRUE,
                <<Deliverable("deliverable-1-2-1", "capability-1-2", "D121", <<>>)>>,
                <<>>, <<>>) >>),
        Initiative("initiative-2", "I2", <<
            Capability("capability-2-1", "initiative-2", "C21", FALSE,
                <<>>, <<"t1">>, <<>>) >>) >>]

\* Dependency edges: to a later capability of another initiative, to an id
\* that is nowhere in the hierarchy, and between deliverables.
ProjectDeps ==
    [initiatives |-> <<
        Initiative("initiative-1", "I1", <<
            Capability("capability-1-1", "initiative-1", "C11", TRUE,
                <<Deliverable("deliverable-1-1-1", "capability-1-1", "D111",
                              <<"deliverable-9-9-9">>),
                  Deliverable("deliverable-1-1-2", "capability-1-1", "D112",
                              <<"deliverable-1-1-1", "deliverable-9-9-9">>),
                  Deliverable("deliverable-1-1-3", "capability-1-1", "D113",
                              <<"deliverable-1-1-1", "deliverable-1-1-2">>)>>,
                <<>>, <<"capability-2-1", "capability-9-9">>) >>),
        Initiative("initiative-2", "I2", <<
            Capability("capability-2-1", "initiative-2", "C21", FALSE,
                <<>>, <<>>, <<"capability-9-9">>),
            Capability("capability-2-2", "initiative-2", "C22", FALSE,
                <<>>, <<>>, <<"capability-2-1", "capability-1-1">>) >>) >>]

\* A capability that lists deliverables without the flag, and one that has
\* the flag without deliverables (the schema accepts both).
ProjectFlags ==
    [initiatives |-> <<
        Initiative("initiative-1", "I1", <<
            Capability("capability-1-1", "initiative-1", "C11", FALSE,
                <<Deliverable("deliverable-1-1-1", "capability-1-1", "D111", <<>>)>>,
                <<"t1">>, <<>>),
            Capability("capability-1-2", "initiative-1", "C12", TRUE,
                <<>>, <<>>, <<"capability-1-1">>) >>) >>]

\* Two initiatives that carry the same symbolic id (z.string() accepts it).
ProjectSameId ==
    [initiatives |-> <<
        Initiative("initiative-1", "I1", <<
            Capability("capability-1-1", "initiative-1", "C11", FALSE,
                <<>>, <<>>, <<>>) >>),
        Initiative("initiative-1", "I1b", <<
            Capability("capability-1-2", "initiative-1", "C12", FALSE,
                <<>>, <<>>, <<>>) >>) >>]

\* A capability that is not flagged and lists a deliverable with a
\* dependency, and a flagged capability whose deliverables depend on that
\* deliverable and on each other.
ProjectHidden ==
    [initiatives |-> <<
        Initiative("initiative-1", "I1", <<
            Capability("capability-1-1", "initiative-1", "C11", FALSE,
                <<Deliverable("deliverable-1-1-1", "capability-1-1", "D111",
                        <<"deliverable-1-2-1">>)>>,
                <<"t1">>, <<>>),
            Capability("capability-1-2", "initiative-1", "C12", TRUE,
                <<Deliverable("deliverable-1-2-1", "capability-1-2", "D121",
                        <<"deliverable-1-1-1">>),
                  Deliverable("deliverable-1-2-2", "capability-1-2", "D122",
                        <<"deliverable-1-1-1", "deliverable-1-2-1">>)>>,
                <<>>, <<>>) >>) >>]

Projects == {ProjectUniform, ProjectDeps, ProjectFlags, ProjectSameId,
             ProjectHidden}

----------------------------------------------------------------------------
VARIABLES
    project,                      \* the ProjectStructure given to generateIssues
    pc,                           \* where generateIssues stands
    i,                            \* pass 1: index of the initiative
    c,                            \* passes 2-4: index into CapPositions
    k,                            \* pass 3 / 4: index of the deliverable
    d,                            \* pass 4: index of the dependency
    data,                         \* number of the child issue being processed
    capabilityNumber,             \* capabilityIssue.number of the current capability
    allIssues,                    \* the list generateIssues returns
    initiativeIdToIssueNumber,
    capabilityIdToIssueNumber,
    deliverableIdToIssueNumber,
    dependencyReferences,         \* pass 4 locals
    linkedDependencies,
    err,                          \* the error generateIssues threw, or NoError
    issues,                       \* tracker: issue number -> issue
    subIssues,                    \* tracker: native parent-child links <<parent, child>>
    repoLabels,                   \* tracker: numbers n for which label parent:#n exists
    blocks,                       \* tracker: native blocking links <<blocker, blocked>>
    comments,                     \* tracker: comments, in order
    lastCall,                     \* the most recent remote call and its outcome
    ncalls,                       \* how many remote calls were issued
    delayed,                      \* a delay(1000) ran after the most recent call
    failures                      \* how many remote calls failed

genVars == <<project, pc, i, c, k, d, data, capabilityNumber, allIssues,
             initiativeIdToIssueNumber, capabilityIdToIssueNumber,
             deliverableIdToIssueNumber, dependencyReferences,
             linkedDependencies, err, issues, subIssues, repoLabels, blocks,
             comments, lastCall, ncalls, delayed, failures>>


VARIABLES
    options,                      \* the command's options: dryRun, skipProject
    mode,                         \* which decomposition runs
    overview,                     \* phase 1's ProjectOverview.initiatives
    sPc,                          \* where the staged decomposition stands
    si,                           \* phase 2: index of the initiative summary
    initiatives,                  \* phase 2: the initiatives that succeeded
    failedInitiatives,            \* phase 2: {initiative, error} of the failed ones
    genCalls,                     \* the capability generations requested, with outcome
    projectStructure,             \* the hierarchy the decomposition produced
    files,                        \* the snapshot files written: name -> content
    sErr                          \* the error the decomposition threw

stagedVars == <<options, mode, overview, sPc, si, initiatives, failedInitiatives,
                genCalls, projectStructure, files, sErr>>

maps == <<initiativeIdToIssueNumber, capabilityIdToIssueNumber,
          deliverableIdToIssueNumber>>
tracker == <<issues, subIssues, repoLabels, blocks, comments>>
depLocals == <<dependencyReferences, linkedDependencies>>


VARIABLES
    prd,                          \* the PRD file given to processPRD
    prdResult                     \* what processPRD returned or threw

prdVars == <<prd, prdResult>>

VARIABLES
    pmInput,                      \* manageProject's arguments: issues, existingProjectNumber
    pmPc,                         \* where manageProject stands
    pmIdx,                        \* addIssuesToProject: index of the issue
    pmProject,                    \* `project`: the number of the project used, 0 before
    pmStatusField,                \* `statusField`: its options, {} if undefined
    pmItemId,                     \* `itemId` of the item just added, 0 if none
    board,                        \* tracker: projects, status fields, project items
    pmCalls,                      \* the ProjectManager calls issued, with outcome
    pmErr                         \* the error manageProject threw, "" if none

pmVars == <<pmInput, pmPc, pmIdx, pmProject, pmStatusField, pmItemId, board,
            pmCalls, pmErr>>

VARIABLES
    structureFile                 \* the saved structure file given to the apply command

applyVars == <<structureFile>>

\* The state outside generateIssues and the decomposition
moreVars == <<prdVars, pmVars, applyVars>>

\* No structure file has been given
ApplyIdle ==
    structureFile = [state |-> "none", projectStructure |-> [initiatives |-> <<>>],
                     targetRepo |-> FALSE]

\* manageProject has not been called
PmIdle ==
    /\ pmInput = [issues |-> <<>>, existingProjectNumber |-> 0]
    /\ pmPc = "idle"
    /\ pmIdx = 1
    /\ pmProject = 0
    /\ pmStatusField = {}
    /\ pmItemId = 0
    /\ board = [projects |-> {}, fields |-> {}, items |-> <<>>,
                status |-> {}]
    /\ pmCalls = <<>>
    /\ pmErr = ""

\* No PRD has been given and processPRD has not run
PrdIdle ==
    /\ prd = [exists |-> FALSE]
    /\ prdResult = [state |-> "none"]

\* Nothing outside generateIssues and the decomposition has run
MoreIdle == PrdIdle /\ PmIdle /\ ApplyIdle

----------------------------------------------------------------------------
\* Values

NoError == [name |-> "none", what |-> "", title |-> "", message |-> ""]

NoCall == [op |-> "none", kind |-> "", issue |-> 0, parent |-> 0,
           status |-> 0]

EmptyMap == [x \in {} |-> 0]

\* Map.get; 0 stands for undefined (issue numbers start at 1).
Lookup(map, id) == IF id \in DOMAIN map THEN map[id] ELSE 0

\* Mutant of Register: the handle is never stored.
RegisterDropped(map, id, number) == map

\* Map.set
Register(map, id, number) ==
    [x \in (DOMAIN map) \cup {id} |-> IF x = id THEN number ELSE map[x]]

\* A successful response, and the failures a call of each kind can end in.
Ok == [status |-> 200, message |-> "OK"]

TransportErrors(op) ==
    IF op = "subIssue"
    THEN {[status |-> 404, message |-> "Not Found"],
          [status |-> 403, message |-> "Forbidden"],
          [status |-> 422, message |-> "Validation Failed"],
          [status |-> 500, message |-> "Server Error"]}
    ELSE IF op \in {"repos.get", "orgs.get"}
    THEN {[status |-> 404, message |-> "Not Found"],
          [status |-> 500, message |-> "Server Error"]}
    ELSE {[status |-> 500, message |-> "Server Error"]}

Outcomes(op) ==
    {Ok} \cup (IF failures < MaxFailures THEN TransportErrors(op) ELSE {})

\* The thrown IssueGeneratorError: `Failed to create <what> issue "<title>": <message>`
IssueGeneratorError(what, title, message) ==
    [name |-> "IssueGeneratorError", what |-> what, title |-> title,
     message |-> message]

\* An error of the transport that nothing wrapped.
RequestError(message) ==
    [name |-> "RequestError", what |-> "", title |-> "", message |-> message]

\* The for-loops over initiatives and their capabilities visit these
\* <<initiative index, capability index>> pairs, in this order.
RECURSIVE CapPositionsFrom(_, _)
CapPositionsFrom(p, n) ==
    IF n > Len(p.initiatives) THEN <<>>
    ELSE [j \in 1..Len(p.initiatives[n].capabilities) |-> <<n, j>>]
         \o CapPositionsFrom(p, n + 1)

\* Mutant of CapPositions: the capabilities are taken last to first.
CapPositionsReversed(p) ==
    [x \in 1..Len(CapPositionsFrom(p, 1)) |->
        CapPositionsFrom(p, 1)[Len(CapPositionsFrom(p, 1)) + 1 - x]]

CapPositions(p) == CapPositionsFrom(p, 1)

\* updateDeliverableDependencies visits these <<initiative, capability,
\* deliverable>> triples: the deliverables of the flagged capabilities.
RECURSIVE DelPositionsFrom(_, _)
DelPositionsFrom(p, n) ==
    IF n > Len(CapPositions(p)) THEN <<>>
    ELSE LET pos == CapPositions(p)[n]
             cap == p.initiatives[pos[1]].capabilities[pos[2]]
         IN (IF ~cap.shouldCreateSubIssues THEN <<>>
             ELSE [x \in 1..Len(cap.deliverables) |-> <<pos[1], pos[2], x>>])
            \o DelPositionsFrom(p, n + 1)

DelPositions(p) == DelPositionsFrom(p, 1)

----------------------------------------------------------------------------
\* Issue bodies: a body is a sequence of sections.

Section(sec, num, text) == [sec |-> sec, num |-> num, text |-> text]

RECURSIVE SumDeliverables(_)
SumDeliverables(caps) ==
    IF caps = <<>> THEN 0
    ELSE Len(Head(caps).deliverables) + SumDeliverables(Tail(caps))

FormatInitiativeBody(ini) ==
    << Section("Objective (WHY)", 0, ini.title),
       Section("Description", 0, ini.title),
       Section("Capabilities", Len(ini.capabilities), ""),
       Section("Deliverables", SumDeliverables(ini.capabilities), ""),
       Section("Initiative ID", 0, ini.id) >>

FormatCapabilityBody(ini, cap, initiativeNumber) ==
    << Section("Initiative", initiativeNumber, ini.title),
       Section("Description (WHAT)", 0, cap.title) >>
    \o (IF ~cap.shouldCreateSubIssues /\ Len(cap.tasks) > 0
        THEN << Section("Implementation Checklist", Len(cap.tasks), "") >>
        ELSE <<>>)
    \o (IF cap.shouldCreateSubIssues /\ Len(cap.deliverables) > 0
        THEN << Section("Deliverables", Len(cap.deliverables), "") >>
        ELSE <<>>)
    \o << Section("Capability ID", 0, cap.id) >>

FormatDeliverableBody(cap, del, capNumber) ==
    << Section("Capability", capNumber, cap.title),
       Section("Description", 0, del.title),
       Section("Deliverable ID", 0, del.id) >>

\* `**Parent Issue**: #<n> <title>` and the body it is prepended to.
ParentLinkSection(parentNumber, parentTitle) ==
    Section("Parent Issue", parentNumber, parentTitle)

\* Mutant of UpdatedBody: the parent reference is put after the body.
UpdatedBodyAppended(parentNumber, parentTitle, body) ==
    body \o << ParentLinkSection(parentNumber, parentTitle) >>

UpdatedBody(parentNumber, parentTitle, body) ==
    << ParentLinkSection(parentNumber, parentTitle) >> \o body

----------------------------------------------------------------------------
\* The position generateIssues stands at

CurPos == CapPositions(project)[c]
CurIni == project.initiatives[CurPos[1]]
CurCap == CurIni.capabilities[CurPos[2]]

\* level "cap": createCapabilityIssue; level "del": createDeliverableIssue
Child(L) == IF L = "cap" THEN CurCap ELSE CurCap.deliverables[k]

\* issueGenerator.ts:50 (initiativeNumber) and :59 (capabilityNumber)
ParentNumber(L) ==
    IF L = "cap" THEN Lookup(initiativeIdToIssueNumber, CurIni.id)
    ELSE capabilityNumber

ParentTitle(L) == IF L = "cap" THEN CurIni.title ELSE CurCap.title

ChildBody(L) ==
    IF L = "cap" THEN FormatCapabilityBody(CurIni, CurCap, ParentNumber(L))
    ELSE FormatDeliverableBody(CurCap, Child(L), ParentNumber(L))

ChildLabels(L) ==
    IF L = "cap" THEN {"type:capability", CurIni.id, CurCap.complexity}
    ELSE {"type:deliverable", CurCap.initiativeId}

ChildTitle(L) ==
    IF L = "cap" THEN <<"[CAPABILITY]", CurCap.title>>
    ELSE <<"[DELIVERABLE]", Child(L).title>>

ChildEnt(L) == IF L = "cap" THEN CurPos ELSE <<CurPos[1], CurPos[2], k>>

\* Mutant of Called: the call is issued and not awaited, so the run goes on
\* while its outcome is still open (status 0).
CalledNotAwaited(op, kind, issue, parent, o) ==
    /\ lastCall' = [op |-> op, kind |-> kind, issue |-> issue,
                    parent |-> parent, status |-> 0]
    /\ ncalls' = ncalls + 1
    /\ failures' = failures + (IF o = Ok THEN 0 ELSE 1)

\* One remote call was issued and awaited, and ended in outcome o.
Called(op, kind, issue, parent, o) ==
    /\ lastCall' = [op |-> op, kind |-> kind, issue |-> issue,
                    parent |-> parent, status |-> o.status]
    /\ ncalls' = ncalls + 1
    /\ failures' = failures + (IF o = Ok THEN 0 ELSE 1)

\* Mutant of Throw: the error is noted and the run goes on where it stood.
ThrowSwallowed(e) ==
    /\ err' = e
    /\ pc' = pc

\* The throw of generateIssues: nothing runs after it.
Throw(e) ==
    /\ err' = e
    /\ pc' = <<"failed", "">>

\* Mutant of AfterInitiative: the capabilities start after the first initiative.
AfterInitiativeEarly(p, n) ==
    IF Len(CapPositions(p)) > 0 THEN <<"cap", "create">>
    ELSE <<"capDeps", "item">>

\* Where pass 1 goes after the initiative at index n.
AfterInitiative(p, n) ==
    IF n < Len(p.initiatives) THEN <<"pass1", "create">>
    ELSE IF Len(CapPositions(p)) > 0 THEN <<"cap", "create">>
    ELSE <<"capDeps", "item">>

\* Mutant of AfterCapability: dependency linking starts once the first
\* capability is finished.
AfterCapabilityLinksEarly(p, n) == <<"capDeps", "item">>

\* Where passes 2 and 3 go after the capability at position n is finished.
AfterCapability(p, n) ==
    IF n < Len(CapPositions(p)) THEN <<"cap", "create">>
    ELSE <<"capDeps", "item">>

\* Mutant of ExpandsToDeliverables: the flag is not consulted.
ExpandsIgnoringFlag(cap) == Len(cap.deliverables) > 0

\* issueGenerator.ts:58
ExpandsToDeliverables(cap) ==
    cap.shouldCreateSubIssues /\ Len(cap.deliverables) > 0

----------------------------------------------------------------------------
\* Pass 1 (issueGenerator.ts:41-46 and createInitiativeIssue)

\* Mutant of CreateInitiativeIssue: an item of the repository that has the
\* initiative's title is taken as the initiative's item, and none is created.
CreateInitiativeIssueDeduplicated ==
    /\ pc = <<"pass1", "create">>
    /\ i <= Len(project.initiatives)
    /\ LET ini == project.initiatives[i]
           same == {x \in 1..Len(issues) :
                        issues[x].title = <<"[INITIATIVE]", ini.title>>}
           number == IF same = {} THEN Len(issues) + 1
                     ELSE CHOOSE x \in same : TRUE
       IN  /\ IF same = {}
              THEN /\ Called("create", "initiative", number, 0, Ok)
                   /\ issues' = Append(issues,
                          [kind |-> "initiative", ent |-> <<i>>,
                           title |-> <<"[INITIATIVE]", ini.title>>,
                           body |-> FormatInitiativeBody(ini),
                           labels |-> {"type:initiative", ini.id},
                           parentLabels |-> {}])
              ELSE UNCHANGED <<issues, lastCall, ncalls, failures>>
           /\ allIssues' = Append(allIssues,
                  [number |-> number,
                   title |-> <<"[INITIATIVE]", ini.title>>])
           /\ initiativeIdToIssueNumber' =
                  Register(initiativeIdToIssueNumber, ini.id, number)
           /\ delayed' = TRUE
           /\ i' = i + 1
           /\ pc' = AfterInitiative(project, i)
           /\ c' = 1
           /\ UNCHANGED <<err, subIssues, repoLabels, blocks, comments,
                          capabilityIdToIssueNumber,
                          deliverableIdToIssueNumber>>
    /\ UNCHANGED <<project, k, d, data, capabilityNumber, depLocals>>
    /\ UNCHANGED <<stagedVars, moreVars>>

CreateInitiativeIssue ==
    /\ pc = <<"pass1", "create">>
    /\ i <= Len(project.initiatives)
    /\ \E o \in Outcomes("create") :
        LET ini == project.initiatives[i]
            number == Len(issues) + 1
        IN  IF o = Ok
            THEN /\ Called("create", "initiative", number, 0, o)
                 /\ issues' = Append(issues,
                        [kind |-> "initiative", ent |-> <<i>>,
                         title |-> <<"[INITIATIVE]", ini.title>>,
                         body |-> FormatInitiativeBody(ini),
                         labels |-> {"type:initiative", ini.id},
                         parentLabels |-> {}])
                 /\ allIssues' = Append(allIssues,
                        [number |-> number,
                         title |-> <<"[INITIATIVE]", ini.title>>])
                 /\ initiativeIdToIssueNumber' =
                        Register(initiativeIdToIssueNumber, ini.id, number)
                 /\ delayed' = TRUE
                 /\ i' = i + 1
                 /\ pc' = AfterInitiative(project, i)
                 /\ c' = 1
                 /\ UNCHANGED <<err, subIssues, repoLabels, blocks, comments,
                                capabilityIdToIssueNumber,
                                deliverableIdToIssueNumber>>
            ELSE /\ Called("create", "initiative", 0, 0, o)
                 /\ Throw(IssueGeneratorError("initiative", ini.title, o.message))
                 /\ delayed' = FALSE
                 /\ UNCHANGED <<i, c, allIssues, maps, tracker>>
    /\ UNCHANGED <<project, k, d, data, capabilityNumber, depLocals>>
    /\ UNCHANGED <<stagedVars, moreVars>>

----------------------------------------------------------------------------
\* Passes 2 and 3 (issueGenerator.ts:49-69, createCapabilityIssue,
\* createDeliverableIssue)

\* The child issue was created: `return {number: data.number, ...}`, then the
\* caller pushes it, registers it, delays and moves on.
Return(L) ==
    /\ allIssues' = Append(allIssues,
            [number |-> data, title |-> issues[data].title])
    /\ delayed' = TRUE
    /\ IF L = "cap"
       THEN /\ capabilityIdToIssueNumber' =
                    Register(capabilityIdToIssueNumber, CurCap.id, data)
            /\ capabilityNumber' = data
            /\ UNCHANGED <<initiativeIdToIssueNumber,
                           deliverableIdToIssueNumber>>
            /\ IF ExpandsToDeliverables(CurCap)
               THEN /\ pc' = <<"del", "create">>
                    /\ k' = 1
                    /\ c' = c
               ELSE /\ pc' = AfterCapability(project, c)
                    /\ c' = IF c < Len(CapPositions(project)) THEN c + 1 ELSE 1
                    /\ k' = k
       ELSE /\ deliverableIdToIssueNumber' =
                    Register(deliverableIdToIssueNumber, Child(L).id, data)
            /\ UNCHANGED <<initiativeIdToIssueNumber,
                           capabilityIdToIssueNumber, capabilityNumber>>
            /\ IF k < Len(CurCap.deliverables)
               THEN /\ pc' = <<"del", "create">>
                    /\ k' = k + 1
                    /\ c' = c
               ELSE /\ pc' = AfterCapability(project, c)
                    /\ c' = IF c < Len(CapPositions(project)) THEN c + 1 ELSE 1
                    /\ k' = k

\* Mutant of CreateChild: a failed creation is passed over and the run goes
\* on to dependency linking.
CreateChildFailureAbsorbed(L) ==
    /\ pc = <<L, "create">>
    /\ \E o \in Outcomes("create") :
        LET number == Len(issues) + 1
        IN  IF o = Ok
            THEN /\ Called("create", L, number, ParentNumber(L), o)
                 /\ issues' = Append(issues,
                        [kind |-> L, ent |-> ChildEnt(L),
                         title |-> ChildTitle(L),
                         body |-> ChildBody(L),
                         labels |-> ChildLabels(L),
                         parentLabels |-> {}])
                 /\ data' = number
                 /\ pc' = <<L, "native">>
                 /\ UNCHANGED err
            ELSE /\ Called("create", L, 0, ParentNumber(L), o)
                 /\ pc' = <<"capDeps", "item">>
                 /\ UNCHANGED <<issues, data, err>>
    /\ delayed' = FALSE
    /\ UNCHANGED <<project, i, c, k, d, capabilityNumber, allIssues, maps,
                   depLocals, subIssues, repoLabels, blocks, comments>>

\* octokit.issues.create for the child
CreateChild(L) ==
    /\ pc = <<L, "create">>
    /\ \E o \in Outcomes("create") :
        LET number == Len(issues) + 1
        IN  IF o = Ok
            THEN /\ Called("create", L, number, ParentNumber(L), o)
                 /\ issues' = Append(issues,
                        [kind |-> L, ent |-> ChildEnt(L),
                         title |-> ChildTitle(L),
                         body |-> ChildBody(L),
                         labels |-> ChildLabels(L),
                         parentLabels |-> {}])
                 /\ data' = number
                 /\ pc' = <<L, "native">>
                 /\ UNCHANGED err
            ELSE /\ Called("create", L, 0, ParentNumber(L), o)
                 /\ Throw(IssueGeneratorError(L, Child(L).title, o.message))
                 /\ UNCHANGED <<issues, data>>
    /\ delayed' = FALSE
    /\ UNCHANGED <<project, i, c, k, d, capabilityNumber, allIssues, maps,
                   depLocals, subIssues, repoLabels, blocks, comments>>

\* Mutant of AfterNativeFailure: a validation failure skips the label steps.
AfterNativeFailureByStatus(L, status) ==
    IF status = 422 THEN <<L, "body">> ELSE <<L, "label">>

\* Where the child's processing goes when the native call failed with status.
AfterNativeFailure(L, status) == <<L, "label">>

\* POST /repos/{owner}/{repo}/issues/{issue_number}/sub_issues
NativeLink(L) ==
    /\ pc = <<L, "native">>
    /\ \E o \in Outcomes("subIssue") :
        /\ Called("subIssue", L, data, ParentNumber(L), o)
        /\ IF o = Ok
           THEN /\ subIssues' = subIssues \cup {<<ParentNumber(L), data>>}
                /\ Return(L)
           ELSE /\ pc' = AfterNativeFailure(L, o.status)
                /\ delayed' = FALSE
                /\ UNCHANGED <<subIssues, allIssues, maps, capabilityNumber,
                               c, k>>
    /\ UNCHANGED <<project, i, d, data, depLocals, err, issues, repoLabels,
                   blocks, comments>>

\* Mutant of LabelFailureAbsorbed: only "already exists" is swallowed.
LabelFailureAbsorbedOnly422(status) == status = 422

\* createParentLabel's catch: does it swallow a failure with this status?
LabelFailureAbsorbed(status) == TRUE

\* createParentLabel: octokit.issues.createLabel; the tracker answers 422
\* when the label exists already.
CreateParentLabel(L) ==
    /\ pc = <<L, "label">>
    /\ \E o \in (IF ParentNumber(L) \in repoLabels
                 THEN {[status |-> 422, message |-> "Validation Failed"]}
                 ELSE Outcomes("createLabel")) :
        /\ lastCall' = [op |-> "createLabel", kind |-> L, issue |-> data,
                        parent |-> ParentNumber(L), status |-> o.status]
        /\ ncalls' = ncalls + 1
        /\ failures' = failures + (IF o.status = 500 THEN 1 ELSE 0)
        /\ repoLabels' = IF o = Ok THEN repoLabels \cup {ParentNumber(L)}
                         ELSE repoLabels
        /\ IF o = Ok \/ LabelFailureAbsorbed(o.status)
           THEN /\ pc' = <<L, "attach">>
                /\ UNCHANGED err
           ELSE Throw(IssueGeneratorError(L, Child(L).title, o.message))
    /\ delayed' = FALSE
    /\ UNCHANGED <<project, i, c, k, d, data, capabilityNumber, allIssues,
                   maps, depLocals, issues, subIssues, blocks, comments>>

\* octokit.issues.addLabels({labels: [`parent:#${parent}`]})
AddParentLabel(L) ==
    /\ pc = <<L, "attach">>
    /\ \E o \in Outcomes("addLabels") :
        /\ Called("addLabels", L, data, ParentNumber(L), o)
        /\ IF o = Ok
           THEN /\ issues' = [issues EXCEPT ![data].parentLabels =
                                    @ \cup {ParentNumber(L)}]
                /\ pc' = <<L, "body">>
                /\ UNCHANGED err
           ELSE /\ Throw(IssueGeneratorError(L, Child(L).title, o.message))
                /\ UNCHANGED issues
    /\ delayed' = FALSE
    /\ UNCHANGED <<project, i, c, k, d, data, capabilityNumber, allIssues,
                   maps, depLocals, subIssues, repoLabels, blocks, comments>>

\* octokit.issues.update({body: parentLinkSection + data.body})
UpdateChildBody(L) ==
    /\ pc = <<L, "body">>
    /\ \E o \in Outcomes("update") :
        /\ Called("update", L, data, ParentNumber(L), o)
        /\ IF o = Ok
           THEN /\ issues' = [issues EXCEPT ![data].body =
                        UpdatedBody(ParentNumber(L), ParentTitle(L),
                                    issues[data].body)]
                /\ Return(L)
                /\ UNCHANGED err
           ELSE /\ Throw(IssueGeneratorError(L, Child(L).title, o.message))
                /\ delayed' = FALSE
                /\ UNCHANGED <<issues, allIssues, maps, capabilityNumber, c, k>>
    /\ UNCHANGED <<project, i, d, data, depLocals, subIssues, repoLabels,
                   blocks, comments>>

CreateCapabilityIssue == CreateChild("cap") /\ UNCHANGED <<stagedVars, moreVars>>
CapabilityNativeLink == NativeLink("cap") /\ UNCHANGED <<stagedVars, moreVars>>
CapabilityParentLabel == CreateParentLabel("cap") /\ UNCHANGED <<stagedVars, moreVars>>
CapabilityAddLabel == AddParentLabel("cap") /\ UNCHANGED <<stagedVars, moreVars>>
CapabilityUpdateBody == UpdateChildBody("cap") /\ UNCHANGED <<stagedVars, moreVars>>

CreateDeliverableIssue == CreateChild("del") /\ UNCHANGED <<stagedVars, moreVars>>
DeliverableNativeLink == NativeLink("del") /\ UNCHANGED <<stagedVars, moreVars>>
DeliverableParentLabel == CreateParentLabel("del") /\ UNCHANGED <<stagedVars, moreVars>>
DeliverableAddLabel == AddParentLabel("del") /\ UNCHANGED <<stagedVars, moreVars>>
DeliverableUpdateBody == UpdateChildBody("del") /\ UNCHANGED <<stagedVars, moreVars>>

----------------------------------------------------------------------------
\* Pass 4 (updateCapabilityDependencies: phase "capDeps",
\* updateDeliverableDependencies: phase "delDeps")

DepItems(P) ==
    IF P = "capDeps" THEN CapPositions(project) ELSE DelPositions(project)

DepEntity(P, n) ==
    LET pos == DepItems(P)[n]
        cap == project.initiatives[pos[1]].capabilities[pos[2]]
    IN  IF P = "capDeps" THEN cap ELSE cap.deliverables[pos[3]]

DepMap(P) ==
    IF P = "capDeps" THEN capabilityIdToIssueNumber
    ELSE deliverableIdToIssueNumber

\* const issueNumber = this.<map>.get(<entity>.id)
IssueNumber(P) == Lookup(DepMap(P), DepEntity(P, c).id)

\* const depNumber = this.<map>.get(depId)
DepNumber(P) == Lookup(DepMap(P), DepEntity(P, c).dependencies[d])

\* getIssueNodeId: the tracker's node id of an issue
NodeId(number) == <<"node", number>>

\* Mutant of LinkedIssue: the two node ids are passed the other way round.
LinkedIssueReversed(sourceId, targetId) ==
    [blocker |-> targetId, blocked |-> sourceId]

\* createLinkedIssue(issueId: sourceId, linkedIssueId: targetId, BLOCKS)
LinkedIssue(sourceId, targetId) ==
    [blocker |-> sourceId, blocked |-> targetId]

\* The loops are over: updateCapabilityDependencies returns into
\* updateDeliverableDependencies, which returns into the end of generateIssues.
DepsPassDone(P) ==
    /\ pc = <<P, "item">>
    /\ c > Len(DepItems(P))
    /\ pc' = IF P = "capDeps" THEN <<"delDeps", "item">> ELSE <<"done", "">>
    /\ c' = 1
    /\ UNCHANGED <<project, i, k, d, data, capabilityNumber, allIssues, maps,
                   depLocals, err, tracker, lastCall, ncalls, delayed,
                   failures>>

\* Mutant of DepItemSkip: the item is skipped without moving to the next one.
DepItemSkipStays(P) ==
    /\ pc = <<P, "item">>
    /\ c <= Len(DepItems(P))
    /\ \/ Len(DepEntity(P, c).dependencies) = 0
       \/ IssueNumber(P) = 0
    /\ c' = c
    /\ UNCHANGED <<project, pc, i, k, d, data, capabilityNumber, allIssues,
                   maps, depLocals, err, tracker, lastCall, ncalls, delayed,
                   failures>>

\* No dependencies, or `if (!issueNumber) continue`
DepItemSkip(P) ==
    /\ pc = <<P, "item">>
    /\ c <= Len(DepItems(P))
    /\ \/ Len(DepEntity(P, c).dependencies) = 0
       \/ IssueNumber(P) = 0
    /\ c' = c + 1
    /\ UNCHANGED <<project, pc, i, k, d, data, capabilityNumber, allIssues,
                   maps, depLocals, err, tracker, lastCall, ncalls, delayed,
                   failures>>

DepItemStart(P) ==
    /\ pc = <<P, "item">>
    /\ c <= Len(DepItems(P))
    /\ Len(DepEntity(P, c).dependencies) > 0
    /\ IssueNumber(P) # 0
    /\ dependencyReferences' = <<>>
    /\ linkedDependencies' = <<>>
    /\ d' = 1
    /\ pc' = <<P, "edge">>
    /\ UNCHANGED <<project, i, c, k, data, capabilityNumber, allIssues, maps,
                   err, tracker, lastCall, ncalls, delayed, failures>>

\* `if (!depNumber) continue`
DepEdgeDrop(P) ==
    /\ pc = <<P, "edge">>
    /\ d <= Len(DepEntity(P, c).dependencies)
    /\ DepNumber(P) = 0
    /\ d' = d + 1
    /\ UNCHANGED <<project, pc, i, c, k, data, capabilityNumber, allIssues,
                   maps, depLocals, err, tracker, lastCall, ncalls, delayed,
                   failures>>

\* Mutant of EdgeFailed: the edge that could not be linked is forgotten.
EdgeFailedDropsReference(P) ==
    /\ d' = d + 1
    /\ pc' = <<P, "edge">>
    /\ UNCHANGED <<depLocals, blocks>>

\* catch (graphqlError): the reference is kept for the comment
EdgeFailed(P) ==
    /\ dependencyReferences' = Append(dependencyReferences, DepNumber(P))
    /\ d' = d + 1
    /\ pc' = <<P, "edge">>
    /\ UNCHANGED <<linkedDependencies, blocks>>

\* sourceId: await this.getIssueNodeId(owner, repo, depNumber)
DepSourceId(P) ==
    /\ pc = <<P, "edge">>
    /\ d <= Len(DepEntity(P, c).dependencies)
    /\ DepNumber(P) # 0
    /\ \E o \in Outcomes("getIssue") :
        /\ Called("getIssue", P, DepNumber(P), 0, o)
        /\ IF o = Ok
           THEN /\ pc' = <<P, "target">>
                /\ UNCHANGED <<d, depLocals, blocks>>
           ELSE EdgeFailed(P)
    /\ delayed' = FALSE
    /\ UNCHANGED <<project, i, c, k, data, capabilityNumber, allIssues, maps,
                   err, issues, subIssues, repoLabels, comments>>

\* targetId: await this.getIssueNodeId(owner, repo, issueNumber)
DepTargetId(P) ==
    /\ pc = <<P, "target">>
    /\ \E o \in Outcomes("getIssue") :
        /\ Called("getIssue", P, IssueNumber(P), 0, o)
        /\ IF o = Ok
           THEN /\ pc' = <<P, "link">>
                /\ UNCHANGED <<d, depLocals, blocks>>
           ELSE EdgeFailed(P)
    /\ delayed' = FALSE
    /\ UNCHANGED <<project, i, c, k, data, capabilityNumber, allIssues, maps,
                   err, issues, subIssues, repoLabels, comments>>

\* octokit.graphql(createLinkedIssue ...)
DepLink(P) ==
    /\ pc = <<P, "link">>
    /\ \E o \in Outcomes("graphql") :
        /\ Called("graphql", P, IssueNumber(P), DepNumber(P), o)
        /\ IF o = Ok
           THEN /\ blocks' = blocks \cup
                        {LinkedIssue(NodeId(DepNumber(P)), NodeId(IssueNumber(P)))}
                /\ linkedDependencies' =
                        Append(linkedDependencies, DepNumber(P))
                /\ dependencyReferences' =
                        Append(dependencyReferences, DepNumber(P))
                /\ d' = d + 1
                /\ pc' = <<P, "edge">>
           ELSE EdgeFailed(P)
    /\ delayed' = FALSE
    /\ UNCHANGED <<project, i, c, k, data, capabilityNumber, allIssues, maps,
                   err, issues, subIssues, repoLabels, comments>>

\* Mutant of DepNoComment: a comment is posted although it lists nothing.
DepEmptyComment(P) ==
    /\ pc = <<P, "edge">>
    /\ d > Len(DepEntity(P, c).dependencies)
    /\ Len(dependencyReferences) = 0
    /\ comments' = Append(comments,
            [issue |-> IssueNumber(P), linked |-> FALSE, references |-> <<>>])
    /\ c' = c + 1
    /\ pc' = <<P, "item">>
    /\ UNCHANGED <<project, i, k, d, data, capabilityNumber, allIssues, maps,
                   depLocals, err, issues, subIssues, repoLabels, blocks,
                   lastCall, ncalls, delayed, failures>>

\* `if (dependencyReferences.length > 0)` is false: no comment
DepNoComment(P) ==
    /\ pc = <<P, "edge">>
    /\ d > Len(DepEntity(P, c).dependencies)
    /\ Len(dependencyReferences) = 0
    /\ c' = c + 1
    /\ pc' = <<P, "item">>
    /\ UNCHANGED <<project, i, k, d, data, capabilityNumber, allIssues, maps,
                   depLocals, err, tracker, lastCall, ncalls, delayed,
                   failures>>

\* Mutant of DepComment: the comment always uses the wording of the linked
\* case.
DepCommentLinkedWording(P) ==
    /\ pc = <<P, "edge">>
    /\ d > Len(DepEntity(P, c).dependencies)
    /\ Len(dependencyReferences) > 0
    /\ \E o \in Outcomes("createComment") :
        /\ Called("createComment", P, IssueNumber(P), 0, o)
        /\ IF o = Ok
           THEN /\ comments' = Append(comments,
                        [issue |-> IssueNumber(P),
                         linked |-> TRUE,
                         references |-> dependencyReferences])
                /\ delayed' = TRUE
                /\ c' = c + 1
                /\ pc' = <<P, "item">>
                /\ UNCHANGED err
           ELSE /\ Throw(RequestError(o.message))
                /\ delayed' = FALSE
                /\ UNCHANGED <<comments, c>>
    /\ UNCHANGED <<project, i, k, d, data, capabilityNumber, allIssues, maps,
                   depLocals, issues, subIssues, repoLabels, blocks>>

\* octokit.issues.createComment, then delay(1000); a failure is not caught
DepComment(P) ==
    /\ pc = <<P, "edge">>
    /\ d > Len(DepEntity(P, c).dependencies)
    /\ Len(dependencyReferences) > 0
    /\ \E o \in Outcomes("createComment") :
        /\ Called("createComment", P, IssueNumber(P), 0, o)
        /\ IF o = Ok
           THEN /\ comments' = Append(comments,
                        [issue |-> IssueNumber(P),
                         linked |-> Len(linkedDependencies) > 0,
                         references |-> dependencyReferences])
                /\ delayed' = TRUE
                /\ c' = c + 1
                /\ pc' = <<P, "item">>
                /\ UNCHANGED err
           ELSE /\ Throw(RequestError(o.message))
                /\ delayed' = FALSE
                /\ UNCHANGED <<comments, c>>
    /\ UNCHANGED <<project, i, k, d, data, capabilityNumber, allIssues, maps,
                   depLocals, issues, subIssues, repoLabels, blocks>>

CapDepsDone == DepsPassDone("capDeps") /\ UNCHANGED <<stagedVars, moreVars>>
CapDepSkip == DepItemSkip("capDeps") /\ UNCHANGED <<stagedVars, moreVars>>
CapDepStart == DepItemStart("capDeps") /\ UNCHANGED <<stagedVars, moreVars>>
CapDepEdgeDrop == DepEdgeDrop("capDeps") /\ UNCHANGED <<stagedVars, moreVars>>
CapDepSourceId == DepSourceId("capDeps") /\ UNCHANGED <<stagedVars, moreVars>>
CapDepTargetId == DepTargetId("capDeps") /\ UNCHANGED <<stagedVars, moreVars>>
CapDepLink == DepLink("capDeps") /\ UNCHANGED <<stagedVars, moreVars>>
CapDepNoComment == DepNoComment("capDeps") /\ UNCHANGED <<stagedVars, moreVars>>
CapDepComment == DepComment("capDeps") /\ UNCHANGED <<stagedVars, moreVars>>

DelDepsDone == DepsPassDone("delDeps") /\ UNCHANGED <<stagedVars, moreVars>>
DelDepSkip == DepItemSkip("delDeps") /\ UNCHANGED <<stagedVars, moreVars>>
DelDepStart == DepItemStart("delDeps") /\ UNCHANGED <<stagedVars, moreVars>>
DelDepEdgeDrop == DepEdgeDrop("delDeps") /\ UNCHANGED <<stagedVars, moreVars>>
DelDepSourceId == DepSourceId("delDeps") /\ UNCHANGED <<stagedVars, moreVars>>
DelDepTargetId == DepTargetId("delDeps") /\ UNCHANGED <<stagedVars, moreVars>>
DelDepLink == DepLink("delDeps") /\ UNCHANGED <<stagedVars, moreVars>>
DelDepNoComment == DepNoComment("delDeps") /\ UNCHANGED <<stagedVars, moreVars>>
DelDepComment == DepComment("delDeps") /\ UNCHANGED <<stagedVars, moreVars>>

----------------------------------------------------------------------------
\* Staged decomposition: phase 2 of the create command (mode "cli") and
\* AIDecomposer.decomposeTwoPhase (mode "api")

\* Bound: how many initiatives phase 1 returned.
MaxInitiatives == 5

IdPool == <<"initiative-1", "initiative-2", "initiative-3", "initiative-4",
            "initiative-5", "initiative-6">>
TitlePool == <<"I1", "I2", "I3", "I4", "I5", "I6">>

InitiativeSummary(id, title) == [id |-> id, title |-> title]

Overviews ==
    { [x \in 1..len |-> InitiativeSummary(IdPool[x], TitlePool[x])] :
        len \in 1..MaxInitiatives }

\* What client.messages.create answered: a transport error, or a message with
\* a stop reason, a content type and a text that parses as JSON or does not.
Response(api, stop, type, parses, value) ==
    [api |-> api, stop_reason |-> stop, type |-> type, parses |-> parses,
     value |-> value]

GoodCapabilities(summary) ==
    << Capability(summary.id \o "-capability-1", summary.id, "C1", TRUE,
            << Deliverable(summary.id \o "-deliverable-1-1",
                           summary.id \o "-capability-1", "D1", <<>>) >>,
            <<>>, <<>>) >>

BadCapabilities(summary) ==
    << [GoodCapabilities(summary)[1] EXCEPT !.complexity = "huge"] >>

CapabilityResponses(summary) ==
    { Response("ok", "end_turn", "text", TRUE, GoodCapabilities(summary)),
      Response("error", "", "", FALSE, <<>>),
      Response("ok", "max_tokens", "text", TRUE, GoodCapabilities(summary)),
      Response("ok", "end_turn", "tool_use", FALSE, <<>>),
      Response("ok", "end_turn", "text", FALSE, <<>>),
      Response("ok", "end_turn", "text", TRUE, <<>>),
      Response("ok", "end_turn", "text", TRUE, BadCapabilities(summary)) }

\* CapabilitySchema, as far as the modelled fields go
ValidCapability(cap) ==
    /\ cap.title # ""
    /\ cap.complexity \in {"small", "medium", "large"}

\* Mutant of ValidCapabilities: an empty list passes.
ValidCapabilitiesMaybeEmpty(value) ==
    \A x \in 1..Len(value) : ValidCapability(value[x])

\* z.array(CapabilitySchema).min(1)
ValidCapabilities(value) ==
    /\ Len(value) >= 1
    /\ \A x \in 1..Len(value) : ValidCapability(value[x])

\* An error: its name, the first line of its message, the title the message
\* quotes, and the remedies the message lists
ErrorOf(name, kind, title, advice) ==
    [name |-> name, kind |-> kind, title |-> title, advice |-> advice]

Failure(name, kind, title) ==
    [ok |-> FALSE, capabilities |-> <<>>,
     error |-> ErrorOf(name, kind, title, {})]

NoFailure == ErrorOf("none", "", "", {})

\* Neither --dry-run nor --skip-project
NoOptions == [dryRun |-> FALSE, skipProject |-> FALSE]

\* decomposeInitiativeCapabilities: the capabilities, or the error it throws
DecomposeInitiativeCapabilities(resp, summary) ==
    IF resp.api = "error"
    THEN Failure("AIDecomposerError", "Claude API error for initiative", summary.title)
    ELSE IF resp.stop_reason = "max_tokens"
    THEN Failure("AIDecomposerError", "AI response was truncated for initiative", summary.title)
    ELSE IF resp.type # "text"
    THEN Failure("AIDecomposerError", "Unexpected response type from Claude API", "")
    ELSE IF ~resp.parses
    THEN Failure("AIDecomposerError", "Failed to parse capabilities for initiative", summary.title)
    ELSE IF ~ValidCapabilities(resp.value)
    THEN Failure("ZodError", "schema", "")
    ELSE [ok |-> TRUE, capabilities |-> resp.value, error |-> NoFailure]

\* One request to the generation backend and what came of it
GenCall(summary, resp) ==
    [id |-> summary.id,
     stop_reason |-> resp.stop_reason,
     wellFormed |-> resp.type = "text" /\ resp.parses
                        /\ ValidCapabilities(resp.value),
     ok |-> DecomposeInitiativeCapabilities(resp, summary).ok,
     error |-> DecomposeInitiativeCapabilities(resp, summary).error]

\* {...initiativeSummary, capabilities}
WithCapabilities(summary, caps) ==
    [id |-> summary.id, title |-> summary.title, capabilities |-> caps]

\* Mutant of FailureList: the entries lose the error message.
RECURSIVE FailureListNoError(_)
FailureListNoError(failed) ==
    IF failed = <<>> THEN <<>>
    ELSE << [initiativeId |-> Head(failed).initiative.id,
             initiativeTitle |-> Head(failed).initiative.title,
             error |-> NoFailure] >> \o FailureListNoError(Tail(failed))

\* failedInitiatives.map(f => ({initiativeId, initiativeTitle, error}))
RECURSIVE FailureList(_)
FailureList(failed) ==
    IF failed = <<>> THEN <<>>
    ELSE << [initiativeId |-> Head(failed).initiative.id,
             initiativeTitle |-> Head(failed).initiative.title,
             error |-> Head(failed).error] >> \o FailureList(Tail(failed))

PrdFile == "prd.md"

\* fs.writeFileSync(name, ...)
WriteFile(fs, name, content) ==
    [x \in (DOMAIN fs) \cup {name} |-> IF x = name THEN content ELSE fs[x]]

NoProject == [initiatives |-> <<>>]

\* What a failed generation does to the create command's phase 2 loop: the
\* catch records it and the loop goes on.
StagedCapabilities ==
    /\ mode = "cli"
    /\ sPc = "phase2"
    /\ si <= Len(overview)
    /\ \E resp \in CapabilityResponses(overview[si]) :
        LET res == DecomposeInitiativeCapabilities(resp, overview[si])
        IN  /\ genCalls' = Append(genCalls, GenCall(overview[si], resp))
            /\ IF res.ok
               THEN /\ initiatives' = Append(initiatives,
                           WithCapabilities(overview[si], res.capabilities))
                    /\ UNCHANGED failedInitiatives
               ELSE /\ failedInitiatives' = Append(failedInitiatives,
                           [initiative |-> overview[si], error |-> res.error])
                    /\ UNCHANGED initiatives
    /\ si' = si + 1
    /\ UNCHANGED <<options, mode, overview, sPc, projectStructure, files, sErr>>
    /\ UNCHANGED <<genVars, moreVars>>

AllInitiativesFailed ==
    ErrorOf("Error", "All initiatives failed to generate capabilities", "", {})

\* Mutant of StagedAllFailed: the snapshot is written and the command goes
\* on to the repository.
StagedAllFailedGoesOn ==
    /\ mode = "cli"
    /\ sPc = "phase2"
    /\ si > Len(overview)
    /\ Len(initiatives) = 0
    /\ files' = WriteFile(files, ".p2g-failure.json",
            [prdFile |-> PrdFile, overview |-> overview,
             failedInitiatives |-> FailureList(failedInitiatives)])
    /\ sPc' = "done"
    /\ UNCHANGED <<options, mode, overview, si, initiatives, failedInitiatives,
                   genCalls, projectStructure, sErr>>
    /\ UNCHANGED <<genVars, moreVars>>

\* `if (initiatives.length === 0)`: .p2g-failure.json, then the throw
StagedAllFailed ==
    /\ mode = "cli"
    /\ sPc = "phase2"
    /\ si > Len(overview)
    /\ Len(initiatives) = 0
    /\ files' = WriteFile(files, ".p2g-failure.json",
            [prdFile |-> PrdFile, overview |-> overview,
             failedInitiatives |-> FailureList(failedInitiatives)])
    /\ sErr' = AllInitiativesFailed
    /\ sPc' = "failed"
    /\ UNCHANGED <<options, mode, overview, si, initiatives, failedInitiatives,
                   genCalls, projectStructure>>
    /\ UNCHANGED <<genVars, moreVars>>

\* Mutant of StagedFinish: the failed initiatives stay in the hierarchy,
\* without capabilities.
StagedFinishKeepsFailed ==
    /\ mode = "cli"
    /\ sPc = "phase2"
    /\ si > Len(overview)
    /\ Len(initiatives) > 0
    /\ projectStructure' =
            [initiatives |-> initiatives \o
                [x \in 1..Len(failedInitiatives) |->
                    WithCapabilities(failedInitiatives[x].initiative, <<>>)]]
    /\ files' = IF Len(failedInitiatives) > 0
                THEN WriteFile(files, ".p2g-partial.json",
                        [prdFile |-> PrdFile,
                         projectStructure |-> [initiatives |-> initiatives],
                         failedInitiatives |-> FailureList(failedInitiatives)])
                ELSE files
    /\ sPc' = "done"
    /\ UNCHANGED <<options, mode, overview, si, initiatives, failedInitiatives,
                   genCalls, sErr>>
    /\ UNCHANGED <<genVars, moreVars>>

\* Mutant of StagedFinish: the snapshot is written whether or not an
\* initiative failed.
StagedFinishAlwaysWrites ==
    /\ mode = "cli"
    /\ sPc = "phase2"
    /\ si > Len(overview)
    /\ Len(initiatives) > 0
    /\ projectStructure' = [initiatives |-> initiatives]
    /\ files' = WriteFile(files, ".p2g-partial.json",
                        [prdFile |-> PrdFile,
                         projectStructure |-> [initiatives |-> initiatives],
                         failedInitiatives |-> FailureList(failedInitiatives)])
    /\ sPc' = "done"
    /\ UNCHANGED <<options, mode, overview, si, initiatives, failedInitiatives,
                   genCalls, sErr>>
    /\ UNCHANGED <<genVars, moreVars>>

\* Some initiative succeeded: the structure, and .p2g-partial.json when some
\* initiative failed
StagedFinish ==
    /\ mode = "cli"
    /\ sPc = "phase2"
    /\ si > Len(overview)
    /\ Len(initiatives) > 0
    /\ projectStructure' = [initiatives |-> initiatives]
    /\ files' = IF Len(failedInitiatives) > 0
                THEN WriteFile(files, ".p2g-partial.json",
                        [prdFile |-> PrdFile,
                         projectStructure |-> [initiatives |-> initiatives],
                         failedInitiatives |-> FailureList(failedInitiatives)])
                ELSE files
    /\ sPc' = "done"
    /\ UNCHANGED <<options, mode, overview, si, initiatives, failedInitiatives,
                   genCalls, sErr>>
    /\ UNCHANGED <<genVars, moreVars>>

\* decomposeTwoPhase's loop: nothing catches what
\* decomposeInitiativeCapabilities throws
TwoPhaseCapabilities ==
    /\ mode = "api"
    /\ sPc = "phase2"
    /\ si <= Len(overview)
    /\ \E resp \in CapabilityResponses(overview[si]) :
        LET res == DecomposeInitiativeCapabilities(resp, overview[si])
        IN  /\ genCalls' = Append(genCalls, GenCall(overview[si], resp))
            /\ IF res.ok
               THEN /\ initiatives' = Append(initiatives,
                           WithCapabilities(overview[si], res.capabilities))
                    /\ si' = si + 1
                    /\ UNCHANGED <<sPc, sErr>>
               ELSE /\ sErr' = res.error
                    /\ sPc' = "failed"
                    /\ UNCHANGED <<initiatives, si>>
    /\ UNCHANGED <<options, mode, overview, failedInitiatives, projectStructure, files>>
    /\ UNCHANGED <<genVars, moreVars>>

TwoPhaseReturn ==
    /\ mode = "api"
    /\ sPc = "phase2"
    /\ si > Len(overview)
    /\ projectStructure' = [initiatives |-> initiatives]
    /\ sPc' = "done"
    /\ UNCHANGED <<options, mode, overview, si, initiatives, failedInitiatives,
                   genCalls, files, sErr>>
    /\ UNCHANGED <<genVars, moreVars>>

StagedIdle ==
    /\ options = NoOptions
    /\ mode = "none"
    /\ overview = <<>>
    /\ sPc = "idle"
    /\ si = 1
    /\ initiatives = <<>>
    /\ failedInitiatives = <<>>
    /\ genCalls = <<>>
    /\ projectStructure = NoProject
    /\ files = EmptyMap
    /\ sErr = NoFailure

----------------------------------------------------------------------------
\* generateIssues on a fresh IssueGenerator and an empty repository

\* A new IssueGenerator and an empty repository
GenFresh ==
    /\ i = 1
    /\ c = 1
    /\ k = 1
    /\ d = 1
    /\ data = 0
    /\ capabilityNumber = 0
    /\ allIssues = <<>>
    /\ initiativeIdToIssueNumber = EmptyMap
    /\ capabilityIdToIssueNumber = EmptyMap
    /\ deliverableIdToIssueNumber = EmptyMap
    /\ dependencyReferences = <<>>
    /\ linkedDependencies = <<>>
    /\ err = NoError
    /\ issues = <<>>
    /\ subIssues = {}
    /\ repoLabels = {}
    /\ blocks = {}
    /\ comments = <<>>
    /\ lastCall = NoCall
    /\ ncalls = 0
    /\ delayed = TRUE
    /\ failures = 0

GenInit ==
    /\ project \in Projects
    /\ pc = <<"pass1", "create">>
    /\ GenFresh
    /\ MoreIdle
    /\ StagedIdle

GenNext ==
    \/ CreateInitiativeIssue
    \/ CreateCapabilityIssue
    \/ CapabilityNativeLink
    \/ CapabilityParentLabel
    \/ CapabilityAddLabel
    \/ CapabilityUpdateBody
    \/ CreateDeliverableIssue
    \/ DeliverableNativeLink
    \/ DeliverableParentLabel
    \/ DeliverableAddLabel
    \/ DeliverableUpdateBody
    \/ CapDepsDone
    \/ CapDepSkip
    \/ CapDepStart
    \/ CapDepEdgeDrop
    \/ CapDepSourceId
    \/ CapDepTargetId
    \/ CapDepLink
    \/ CapDepNoComment
    \/ CapDepComment
    \/ DelDepsDone
    \/ DelDepSkip
    \/ DelDepStart
    \/ DelDepEdgeDrop
    \/ DelDepSourceId
    \/ DelDepTargetId
    \/ DelDepLink
    \/ DelDepNoComment
    \/ DelDepComment

vars == <<genVars, stagedVars, moreVars>>

Init == GenInit

Next == GenNext

Spec == Init /\ [][Next]_vars

\* Phase 2 of a staged decomposition, after phase 1 returned an overview
StagedInit ==
    /\ options = NoOptions
    /\ mode \in {"cli", "api"}
    /\ overview \in Overviews
    /\ sPc = "phase2"
    /\ si = 1
    /\ initiatives = <<>>
    /\ failedInitiatives = <<>>
    /\ genCalls = <<>>
    /\ projectStructure = NoProject
    /\ files = EmptyMap
    /\ sErr = NoFailure
    /\ project = NoProject
    /\ pc = <<"idle", "">>
    /\ GenFresh
    /\ MoreIdle

StagedNext ==
    \/ StagedCapabilities
    \/ StagedAllFailed
    \/ StagedFinish
    \/ TwoPhaseCapabilities
    \/ TwoPhaseReturn

SpecStaged == StagedInit /\ [][StagedNext]_vars


----------------------------------------------------------------------------
\* The create command (handleCreateCommand): decomposition, then the
\* repository, the labels, the issues and the project. The run modelled has
\* no --output file and no --project number.

CommandInitiatives == 2

CommandOverviews ==
    { [x \in 1..len |-> InitiativeSummary(IdPool[x], TitlePool[x])] :
        len \in 1..CommandInitiatives }

\* ProjectOverviewSchema, as far as the modelled fields go
ValidOverview(value) ==
    /\ Len(value) >= 1
    /\ \A x \in 1..Len(value) : value[x].title # ""

OverviewResponses ==
    { Response("ok", "end_turn", "text", TRUE, ov) : ov \in CommandOverviews }
    \cup
    { Response("error", "", "", FALSE, <<>>),
      Response("ok", "max_tokens", "text", TRUE,
               << InitiativeSummary(IdPool[1], TitlePool[1]) >>),
      Response("ok", "end_turn", "tool_use", FALSE, <<>>),
      Response("ok", "end_turn", "text", FALSE, <<>>),
      Response("ok", "end_turn", "text", TRUE, <<>>),
      Response("ok", "end_turn", "text", TRUE,
               << InitiativeSummary(IdPool[1], "") >>) }

Thrown(error) == [ok |-> FALSE, error |-> error]
Returns == [ok |-> TRUE, error |-> NoFailure]

\* Mutant of DecomposeInitiatives: the parsed value is returned without
\* schema validation.
DecomposeInitiativesUnvalidated(resp) ==
    IF resp.api = "error"
    THEN Thrown(ErrorOf("AIDecomposerError", "Claude API error", "", {}))
    ELSE IF resp.stop_reason = "max_tokens"
    THEN Thrown(ErrorOf("AIDecomposerError",
                "AI response was truncated during initiative generation", "",
                {"ANTHROPIC_MAX_TOKENS", "simplify"}))
    ELSE IF resp.type # "text"
    THEN Thrown(ErrorOf("AIDecomposerError",
                "Unexpected response type from Claude API", "", {}))
    ELSE IF ~resp.parses
    THEN Thrown(ErrorOf("AIDecomposerError",
                "Failed to parse Claude response as JSON", "", {}))
    ELSE Returns

\* decomposeInitiatives: the overview is returned, or this error is thrown
DecomposeInitiatives(resp) ==
    IF resp.api = "error"
    THEN Thrown(ErrorOf("AIDecomposerError", "Claude API error", "", {}))
    ELSE IF resp.stop_reason = "max_tokens"
    THEN Thrown(ErrorOf("AIDecomposerError",
                "AI response was truncated during initiative generation", "",
                {"ANTHROPIC_MAX_TOKENS", "simplify"}))
    ELSE IF resp.type # "text"
    THEN Thrown(ErrorOf("AIDecomposerError",
                "Unexpected response type from Claude API", "", {}))
    ELSE IF ~resp.parses
    THEN Thrown(ErrorOf("AIDecomposerError",
                "Failed to parse Claude response as JSON", "", {}))
    ELSE IF ~ValidOverview(resp.value)
    THEN Thrown(ErrorOf("ZodError", "schema", "", {}))
    ELSE Returns

\* InitiativeSchema / ProjectStructureSchema, as far as the modelled fields go
ValidInitiative(ini) ==
    /\ ini.title # ""
    /\ ValidCapabilities(ini.capabilities)

ValidProjectStructure(value) ==
    /\ Len(value.initiatives) >= 1
    /\ \A x \in 1..Len(value.initiatives) : ValidInitiative(value.initiatives[x])

\* An initiative whose capability list is empty
ProjectNoCapabilities ==
    [initiatives |-> << Initiative("initiative-1", "I1", <<>>) >>]

\* A hierarchy that repeats a capability id within its initiative and a
\* deliverable id within its capability
ProjectRepeatedIds ==
    [initiatives |-> <<
        Initiative("initiative-1", "I1", <<
            Capability("capability-1-1", "initiative-1", "C11", TRUE,
                << Deliverable("deliverable-1-1-1", "capability-1-1", "D111", <<>>),
                   Deliverable("deliverable-1-1-1", "capability-1-1", "D112", <<>>) >>,
                <<>>, <<>>),
            Capability("capability-1-1", "initiative-1", "C12", FALSE,
                <<>>, <<"t1">>, <<>>) >>) >>]

StructureResponses ==
    { Response("ok", "end_turn", "text", TRUE, p) : p \in Projects }
    \cup
    { Response("ok", "end_turn", "text", TRUE, ProjectRepeatedIds),
      Response("error", "", "", FALSE, NoProject),
      Response("ok", "max_tokens", "text", TRUE, ProjectUniform),
      Response("ok", "max_tokens", "text", FALSE, NoProject),
      Response("ok", "end_turn", "tool_use", FALSE, NoProject),
      Response("ok", "end_turn", "text", FALSE, NoProject),
      Response("ok", "end_turn", "text", TRUE, NoProject),
      Response("ok", "end_turn", "text", TRUE, ProjectNoCapabilities) }

\* Mutant of Decompose: the text is parsed and validated before the stop
\* reason is looked at.
DecomposeParsesFirst(resp) ==
    IF resp.api = "error"
    THEN Thrown(ErrorOf("AIDecomposerError", "Claude API error", "", {}))
    ELSE IF resp.type # "text"
    THEN Thrown(ErrorOf("AIDecomposerError",
                "Unexpected response type from Claude API", "", {}))
    ELSE IF ~resp.parses
    THEN Thrown(ErrorOf("AIDecomposerError",
                "Failed to parse Claude response as JSON", "", {}))
    ELSE IF ~ValidProjectStructure(resp.value)
    THEN Thrown(ErrorOf("ZodError", "schema", "", {}))
    ELSE Returns

TruncatedSinglePass ==
    ErrorOf("AIDecomposerError",
            "AI response was truncated due to insufficient output token limit",
            "", {"--two-phase", "ANTHROPIC_MAX_TOKENS", "simplify", "split"})

\* decompose: the hierarchy is returned, or this error is thrown
Decompose(resp) ==
    IF resp.api = "error"
    THEN Thrown(ErrorOf("AIDecomposerError", "Claude API error", "", {}))
    ELSE IF resp.stop_reason = "max_tokens"
    THEN Thrown(TruncatedSinglePass)
    ELSE IF resp.type # "text"
    THEN Thrown(ErrorOf("AIDecomposerError",
                "Unexpected response type from Claude API", "", {}))
    ELSE IF ~resp.parses
    THEN Thrown(ErrorOf("AIDecomposerError",
                "Failed to parse Claude response as JSON", "", {}))
    ELSE IF ~ValidProjectStructure(resp.value)
    THEN Thrown(ErrorOf("ZodError", "schema", "", {}))
    ELSE Returns

\* The single-pass request to the generation backend and what came of it
StructureCall(resp) ==
    [id |-> "",
     stop_reason |-> resp.stop_reason,
     wellFormed |-> resp.type = "text" /\ resp.parses
                        /\ ValidProjectStructure(resp.value),
     ok |-> Decompose(resp).ok,
     error |-> Decompose(resp).error]

\* Phase 1: `overview = await decomposer.decomposeInitiatives(prdMetadata)`;
\* the catch around the two phases rethrows
CommandInitiativesPhase ==
    /\ mode = "cli"
    /\ sPc = "decompose"
    /\ \E resp \in OverviewResponses :
        IF DecomposeInitiatives(resp).ok
        THEN /\ overview' = resp.value
             /\ sPc' = "phase2"
             /\ UNCHANGED sErr
        ELSE /\ sErr' = DecomposeInitiatives(resp).error
             /\ sPc' = "failed"
             /\ UNCHANGED overview
    /\ UNCHANGED <<options, mode, si, initiatives, failedInitiatives,
                   genCalls, projectStructure, files>>
    /\ UNCHANGED <<genVars, moreVars>>

\* `projectStructure = await decomposer.decompose(prdMetadata)`
CommandSinglePass ==
    /\ mode = "single"
    /\ sPc = "decompose"
    /\ \E resp \in StructureResponses :
        /\ genCalls' = Append(genCalls, StructureCall(resp))
        /\ IF Decompose(resp).ok
           THEN /\ projectStructure' = resp.value
                /\ sPc' = "done"
                /\ UNCHANGED sErr
           ELSE /\ sErr' = Decompose(resp).error
                /\ sPc' = "failed"
                /\ UNCHANGED projectStructure
    /\ UNCHANGED <<options, mode, overview, si, initiatives,
                   failedInitiatives, files>>
    /\ UNCHANGED <<genVars, moreVars>>

\* What a step of the command outside generateIssues leaves alone
CommandFrame ==
    /\ UNCHANGED <<options, mode, overview, si, initiatives,
                   failedInitiatives, genCalls, projectStructure, files>>
    /\ UNCHANGED <<i, c, k, d, data, capabilityNumber, allIssues, maps,
                   depLocals, err, tracker>>
    /\ UNCHANGED moreVars

\* `if (config.output.dryRun) { ...; return; }`
CommandDryRun ==
    /\ sPc = "done"
    /\ options.dryRun
    /\ sPc' = "finished"
    /\ UNCHANGED <<sErr, project, pc, lastCall, ncalls, delayed, failures>>
    /\ CommandFrame

\* RepoManager.getOrCreateRepository: repos.get
\* Mutant of CommandGetRepository: the repository is looked up in a dry run
\* too.
CommandGetRepositoryInDryRun ==
    /\ sPc = "done"
    /\ \E o \in Outcomes("repos.get") :
        /\ Called("repos.get", "repository", 0, 0, o)
        /\ IF o = Ok
           THEN sPc' = "labels" /\ UNCHANGED sErr
           ELSE IF o.status = 404
           THEN sPc' = "org" /\ UNCHANGED sErr
           ELSE /\ sPc' = "failed"
                /\ sErr' = ErrorOf("RepoManagerError",
                                   "Failed to check repository", "", {})
    /\ delayed' = FALSE
    /\ UNCHANGED <<project, pc>>
    /\ CommandFrame

CommandGetRepository ==
    /\ sPc = "done"
    /\ ~options.dryRun
    /\ \E o \in Outcomes("repos.get") :
        /\ Called("repos.get", "repository", 0, 0, o)
        /\ IF o = Ok
           THEN sPc' = "labels" /\ UNCHANGED sErr
           ELSE IF o.status = 404
           THEN sPc' = "org" /\ UNCHANGED sErr
           ELSE /\ sPc' = "failed"
                /\ sErr' = ErrorOf("RepoManagerError",
                                   "Failed to check repository", "", {})
    /\ delayed' = FALSE
    /\ UNCHANGED <<project, pc>>
    /\ CommandFrame

\* RepoManager.checkIfOrganization: orgs.get; every failure means "a user"
CommandCheckOrganization ==
    /\ sPc = "org"
    /\ \E o \in Outcomes("orgs.get") :
        /\ Called("orgs.get", "repository", 0, 0, o)
        /\ sPc' = IF o = Ok THEN "createInOrg" ELSE "createForUser"
    /\ delayed' = FALSE
    /\ UNCHANGED <<sErr, project, pc>>
    /\ CommandFrame

\* RepoManager.createRepository: repos.createInOrg or
\* repos.createForAuthenticatedUser
CommandCreateRepository ==
    /\ sPc \in {"createInOrg", "createForUser"}
    /\ \E o \in Outcomes("repos.create") :
        /\ Called(sPc, "repository", 0, 0, o)
        /\ IF o = Ok
           THEN sPc' = "labels" /\ UNCHANGED sErr
           ELSE /\ sPc' = "failed"
                /\ sErr' = ErrorOf("RepoManagerError",
                                   "Failed to create repository", "", {})
    /\ delayed' = FALSE
    /\ UNCHANGED <<project, pc>>
    /\ CommandFrame

\* LabelManager.ensureLabels: issues.listLabelsForRepo
CommandListLabels ==
    /\ sPc = "labels"
    /\ \E o \in Outcomes("listLabels") :
        /\ Called("listLabels", "label", 0, 0, o)
        /\ IF o = Ok
           THEN sPc' = "createLabels" /\ UNCHANGED sErr
           ELSE /\ sPc' = "failed"
                /\ sErr' = ErrorOf("LabelManagerError",
                                   "Failed to get existing labels", "", {})
    /\ delayed' = FALSE
    /\ UNCHANGED <<project, pc>>
    /\ CommandFrame

\* LabelManager.ensureLabels: the issues.createLabel calls for the missing
\* labels, taken as one step; createLabel absorbs every failure. Then
\* `issueGenerator.generateIssues(owner, name, projectStructure)` is entered.
CommandCreateLabels ==
    /\ sPc = "createLabels"
    /\ \E o \in Outcomes("createLabels") :
        Called("createLabels", "label", 0, 0, o)
    /\ delayed' = FALSE
    /\ sPc' = "issues"
    /\ project' = projectStructure
    /\ pc' = <<"pass1", "create">>
    /\ UNCHANGED sErr
    /\ CommandFrame

\* generateIssues threw: the command's catch ends the process
CommandCatch ==
    /\ sPc = "issues"
    /\ pc = <<"failed", "">>
    /\ sPc' = "failed"
    /\ UNCHANGED <<sErr, project, pc, lastCall, ncalls, delayed, failures>>
    /\ CommandFrame

\* ProjectManager.manageProject, taken as one step
CommandManageProject ==
    /\ sPc = "issues"
    /\ pc = <<"done", "">>
    /\ ~options.skipProject
    /\ \E o \in Outcomes("project") :
        /\ Called("project", "project", 0, 0, o)
        /\ IF o = Ok
           THEN sPc' = "finished" /\ UNCHANGED sErr
           ELSE /\ sPc' = "failed"
                /\ sErr' = ErrorOf("ProjectManagerError", "", "", {})
    /\ delayed' = FALSE
    /\ UNCHANGED <<project, pc>>
    /\ CommandFrame

\* `--skip-project`: the summary without a project
CommandSkipProject ==
    /\ sPc = "issues"
    /\ pc = <<"done", "">>
    /\ options.skipProject
    /\ sPc' = "finished"
    /\ UNCHANGED <<sErr, project, pc, lastCall, ncalls, delayed, failures>>
    /\ CommandFrame

CommandInit ==
    /\ options \in [dryRun : BOOLEAN, skipProject : BOOLEAN]
    /\ mode \in {"cli", "single"}
    /\ overview = <<>>
    /\ sPc = "decompose"
    /\ si = 1
    /\ initiatives = <<>>
    /\ failedInitiatives = <<>>
    /\ genCalls = <<>>
    /\ projectStructure = NoProject
    /\ files = EmptyMap
    /\ sErr = NoFailure
    /\ project = NoProject
    /\ pc = <<"idle", "">>
    /\ GenFresh
    /\ MoreIdle

CommandNext ==
    \/ CommandInitiativesPhase
    \/ CommandSinglePass
    \/ StagedCapabilities
    \/ StagedAllFailed
    \/ StagedFinish
    \/ CommandDryRun
    \/ CommandGetRepository
    \/ CommandCheckOrganization
    \/ CommandCreateRepository
    \/ CommandListLabels
    \/ CommandCreateLabels
    \/ GenNext
    \/ CommandCatch
    \/ CommandManageProject
    \/ CommandSkipProject

SpecCommand == CommandInit /\ [][CommandNext]_vars


----------------------------------------------------------------------------
\* The create command run again and again on one document, in dry-run mode:
\* every run is a new process with new locals; the working directory and the
\* files in it stay.

RerunInitiatives == 2

RerunOverviews ==
    { [x \in 1..len |-> InitiativeSummary(IdPool[x], TitlePool[x])] :
        len \in 1..RerunInitiatives }

\* The command is started again after the previous run ended; phase 1 gives
\* the same overview.
CommandRerun ==
    /\ sPc \in {"finished", "failed"}
    /\ sPc' = "phase2"
    /\ si' = 1
    /\ initiatives' = <<>>
    /\ failedInitiatives' = <<>>
    /\ genCalls' = <<>>
    /\ projectStructure' = NoProject
    /\ sErr' = NoFailure
    /\ UNCHANGED <<options, mode, overview, files>>
    /\ UNCHANGED <<genVars, moreVars>>

RerunInit ==
    /\ options = [dryRun |-> TRUE, skipProject |-> FALSE]
    /\ mode = "cli"
    /\ overview \in RerunOverviews
    /\ sPc = "phase2"
    /\ si = 1
    /\ initiatives = <<>>
    /\ failedInitiatives = <<>>
    /\ genCalls = <<>>
    /\ projectStructure = NoProject
    /\ files = EmptyMap
    /\ sErr = NoFailure
    /\ project = NoProject
    /\ pc = <<"idle", "">>
    /\ GenFresh
    /\ MoreIdle

RerunNext ==
    \/ StagedCapabilities
    \/ StagedAllFailed
    \/ StagedFinish
    \/ CommandDryRun
    \/ CommandRerun

SpecRerun == RerunInit /\ [][RerunNext]_vars

----------------------------------------------------------------------------
\* Vocabulary of the properties

Done == pc = <<"done", "">>
Failed == pc = <<"failed", "">>

IssueNumbers == 1..Len(issues)
ChildIssues == {x \in IssueNumbers : issues[x].kind \in {"cap", "del"}}
IssuesAt(e) == {x \in IssueNumbers : issues[x].ent = e}
HasNativeLink(x) == \E l \in subIssues : l[2] = x
InProcessing(x) == x = data /\ pc[2] \in {"native", "label", "attach", "body"}
Returned(x) == \E m \in 1..Len(allIssues) : allIssues[m].number = x

InitiativeAt(e) == project.initiatives[e[1]]
CapabilityAt(e) == InitiativeAt(e).capabilities[e[2]]
DeliverableAt(e) == CapabilityAt(e).deliverables[e[3]]

\* The entity one level up
OwnerOf(e) == IF Len(e) = 2 THEN <<e[1]>> ELSE <<e[1], e[2]>>

\* The entities of a hierarchy that are to be materialized: every initiative,
\* every capability, and every deliverable of a capability flagged to expand
ExpectedEntities(p) ==
    LET I == 1..Len(p.initiatives)
        Caps == UNION {{<<a, b>> : b \in 1..Len(p.initiatives[a].capabilities)} :
                        a \in I}
        Flagged == {e \in Caps :
            p.initiatives[e[1]].capabilities[e[2]].shouldCreateSubIssues}
        Dels == UNION {{<<e[1], e[2], x>> :
                            x \in 1..Len(p.initiatives[e[1]].capabilities[e[2]].deliverables)} :
                        e \in Flagged}
    IN  {<<a>> : a \in I} \cup Caps \cup Dels

\* The handle the resolver holds for the owner of a capability
ResolvedInitiative(e) == Lookup(initiativeIdToIssueNumber, InitiativeAt(e).id)

\* The body a child item was created with, given the parent number used
OriginalBody(e, parent) ==
    IF Len(e) = 2
    THEN FormatCapabilityBody(InitiativeAt(e), CapabilityAt(e), parent)
    ELSE FormatDeliverableBody(CapabilityAt(e), DeliverableAt(e), parent)

OwnerTitle(e) ==
    IF Len(e) = 2 THEN InitiativeAt(e).title ELSE CapabilityAt(e).title

\* A remote call was issued in this step
CallStep == ncalls' = ncalls + 1

----------------------------------------------------------------------------
\* C1: a child's creation call is issued only when its parent item exists and
\* the parent's handle is in the resolver: the owning initiative's for a
\* capability, the owning capability's for a deliverable.
C1_ParentRegisteredBeforeChild ==
    [][ (CallStep /\ lastCall'.op = "create" /\ lastCall'.kind \in {"cap", "del"})
        => /\ lastCall'.kind = pc[1]
           /\ IF pc[1] = "cap"
              THEN /\ CurIni.id \in DOMAIN initiativeIdToIssueNumber
                   /\ IssuesAt(<<CurPos[1]>>) # {}
                   /\ initiativeIdToIssueNumber[CurIni.id] \in IssueNumbers
              ELSE /\ CurCap.id \in DOMAIN capabilityIdToIssueNumber
                   /\ IssuesAt(CurPos) # {}
                   /\ capabilityIdToIssueNumber[CurCap.id] \in IssuesAt(CurPos)
      ]_vars

C1_Witness ==
    /\ lastCall.op = "create"
    /\ lastCall.kind = "del"
    /\ lastCall.status = 200
    /\ CurCap.id \in DOMAIN capabilityIdToIssueNumber

\* C2: when no remote call failed, the finished run has created and returned
\* exactly one item per initiative, per capability and per deliverable of a
\* flagged capability.
C2_OneItemPerEntity ==
    (Done /\ failures = 0) =>
        /\ Len(allIssues) = Cardinality(ExpectedEntities(project))
        /\ Len(issues) = Cardinality(ExpectedEntities(project))
        /\ \A e \in ExpectedEntities(project) : Cardinality(IssuesAt(e)) = 1
        /\ \A x \in IssueNumbers : issues[x].ent \in ExpectedEntities(project)
        /\ \A x \in IssueNumbers :
                Cardinality({m \in 1..Len(allIssues) : allIssues[m].number = x}) = 1

C2_Witness ==
    /\ Done
    /\ failures = 0
    /\ project = ProjectUniform
    /\ Len(allIssues) = 7

C4_InitiativeFailureAborts ==
    (err.name = "IssueGeneratorError" /\ err.what = "initiative") =>
        /\ Failed
        /\ err.title = project.initiatives[i].title
        /\ err.message \in {e.message : e \in TransportErrors("create")}
        /\ lastCall.op = "create"
        /\ lastCall.kind = "initiative"
        /\ lastCall.status # 200
        /\ ncalls = i
        /\ ChildIssues = {}
        /\ subIssues = {}
        /\ blocks = {}
        /\ comments = <<>>
        /\ ~ ENABLED Next

C4_Witness ==
    /\ err.what = "initiative"
    /\ i = 2
    /\ Len(issues) = 1

\* C5: the native call is the first call after a child's creation; after its
\* success no label or body call is made for the child, after its failure,
\* whatever the status, the fallback starts with the label step.
C5_NativeFirstThenFallback ==
    /\ (lastCall.op = "create" /\ lastCall.kind \in {"cap", "del"}
            /\ lastCall.status = 200)
        => pc = <<lastCall.kind, "native">>
    /\ (lastCall.op = "subIssue" /\ lastCall.status = 200)
        => pc[2] \notin {"label", "attach", "body"}
    /\ (lastCall.op = "subIssue" /\ lastCall.status # 200)
        => (pc = <<lastCall.kind, "label">> /\ err = NoError)
    /\ lastCall.op \in {"createLabel", "addLabels", "update"}
        => ~HasNativeLink(lastCall.issue)
    /\ \A x \in ChildIssues : HasNativeLink(x) =>
            /\ issues[x].parentLabels = {}
            /\ Head(issues[x].body).sec # "Parent Issue"

C5_Witness ==
    /\ lastCall.op = "subIssue"
    /\ lastCall.status = 403
    /\ pc[2] = "label"

\* C6 as claimed: a failed attach-label or body-update step is not fatal.
C6_FallbackStepsNotFatal ==
    (lastCall.op \in {"addLabels", "update"} /\ lastCall.status # 200)
        => (err = NoError /\ ~Failed)

\* C7: a failure of the ensure-label step, 422 or other, raises nothing and
\* the attach-label step is attempted next; the body step is attempted once
\* the attach-label call returned.
C7_LabelFailureAbsorbed ==
    /\ (lastCall.op = "createLabel" /\ lastCall.status # 200)
        => (pc = <<lastCall.kind, "attach">> /\ err = NoError
            /\ ENABLED AddParentLabel(lastCall.kind))
    /\ (lastCall.op = "addLabels" /\ lastCall.status = 200)
        => (pc = <<lastCall.kind, "body">>
            /\ ENABLED UpdateChildBody(lastCall.kind))

C7_Witness ==
    /\ lastCall.op = "createLabel"
    /\ lastCall.status = 500
    /\ pc[2] = "attach"

C9_ParentIsOwner ==
    (lastCall.op \in {"subIssue", "createLabel", "addLabels", "update"}) =>
        lastCall.parent \in IssuesAt(OwnerOf(issues[lastCall.issue].ent))

\* C10 as claimed: a staged decomposition that has ended requested the
\* capabilities of every initiative of the overview, and recorded every
\* failure with its initiative.
C10_NoAbortOnInitiativeFailure ==
    (sPc \in {"done", "failed"}) =>
        /\ Len(genCalls) = Len(overview)
        /\ Len(initiatives) + Len(failedInitiatives) = Len(overview)

----------------------------------------------------------------------------
\* Vocabulary of the staged decomposition's properties

PartialFile == ".p2g-partial.json"
FailureFile == ".p2g-failure.json"

Ids(seq) == [x \in 1..Len(seq) |-> seq[x].id]

\* The capability generation requested for this id came back valid / failed
Succeeded(id) == \E x \in 1..Len(genCalls) : genCalls[x].id = id /\ genCalls[x].ok
Rejected(id) == \E x \in 1..Len(genCalls) : genCalls[x].id = id /\ ~genCalls[x].ok

SucceededSummary(s) == Succeeded(s.id)
RejectedSummary(s) == Rejected(s.id)
RejectedCall(call) == ~call.ok

\* What the failure list of a snapshot has to say, from the requests made:
\* one entry per failed request, in the order of the overview
RECURSIVE ExpectedFailures(_, _)
ExpectedFailures(summaries, calls) ==
    IF calls = <<>> THEN <<>>
    ELSE (IF Head(calls).ok THEN <<>>
          ELSE << [initiativeId |-> Head(summaries).id,
                   initiativeTitle |-> Head(summaries).title,
                   error |-> Head(calls).error] >>)
         \o ExpectedFailures(Tail(summaries), Tail(calls))

PartialSuccess ==
    /\ mode = "cli"
    /\ sPc = "done"
    /\ failedInitiatives # <<>>

\* C11: after phase 2 of the create command with at least one success and at
\* least one failure, the hierarchy holds exactly the initiatives whose
\* capability generation succeeded, in the overview's order, each with the
\* capabilities generated for it; successes and recorded failures partition
\* the overview; and the partial-success snapshot holds that hierarchy and,
\* for each failed initiative, its id, its title and the error's message.
C11_PartialHierarchyAndSnapshot ==
    PartialSuccess =>
        /\ Ids(projectStructure.initiatives)
                = Ids(SelectSeq(overview, SucceededSummary))
        /\ \A x \in 1..Len(projectStructure.initiatives) :
                \E y \in 1..Len(overview) :
                    /\ projectStructure.initiatives[x].id = overview[y].id
                    /\ projectStructure.initiatives[x].title = overview[y].title
                    /\ Len(projectStructure.initiatives[x].capabilities) >= 1
        /\ Ids(SelectSeq(overview, RejectedSummary))
                = [x \in 1..Len(failedInitiatives) |->
                        failedInitiatives[x].initiative.id]
        /\ Len(projectStructure.initiatives) + Len(failedInitiatives)
                = Len(overview)
        /\ \A s \in 1..Len(overview) :
                Succeeded(overview[s].id) # Rejected(overview[s].id)
        /\ PartialFile \in DOMAIN files
        /\ files[PartialFile].prdFile = PrdFile
        /\ files[PartialFile].projectStructure = projectStructure
        /\ files[PartialFile].failedInitiatives
                = ExpectedFailures(overview, genCalls)

\* 2 failures out of 5 have given exactly 3 initiatives
C11_Witness ==
    /\ PartialSuccess
    /\ Len(overview) = 5
    /\ Len(failedInitiatives) = 2
    /\ Len(projectStructure.initiatives) = 3
    /\ PartialFile \in DOMAIN files

\* Capability generation was requested for every initiative of the overview
\* and failed every time, and phase 2 is over
AllRejected ==
    /\ mode = "cli"
    /\ overview # <<>>
    /\ Len(genCalls) = Len(overview)
    /\ \A x \in 1..Len(genCalls) : ~genCalls[x].ok
    /\ sPc # "phase2"

TrackerUntouched ==
    /\ ncalls = 0
    /\ lastCall = NoCall
    /\ issues = <<>>
    /\ pc = <<"idle", "">>

\* C12: when capability generation fails for every initiative the command
\* has failed with the all-initiatives-failed error, the diagnostic snapshot
\* holds the document reference, the overview and one failure entry per
\* initiative, there is no partial-success snapshot, and no call to the
\* tracker has been made (the failed command takes no further step).
C12_AllFailedSnapshotNoTracker ==
    AllRejected =>
        /\ sPc = "failed"
        /\ sErr = AllInitiativesFailed
        /\ FailureFile \in DOMAIN files
        /\ files[FailureFile].prdFile = PrdFile
        /\ files[FailureFile].overview = overview
        /\ files[FailureFile].failedInitiatives
                = ExpectedFailures(overview, genCalls)
        /\ Len(files[FailureFile].failedInitiatives) = Len(overview)
        /\ PartialFile \notin DOMAIN files
        /\ projectStructure = NoProject
        /\ TrackerUntouched

C12_Witness ==
    /\ AllRejected
    /\ Len(overview) = 2
    /\ sErr = AllInitiativesFailed
    /\ FailureFile \in DOMAIN files

\* Capability generation was requested for every initiative of the overview
\* and succeeded every time, and phase 2 is over
AllSucceeded ==
    /\ mode = "cli"
    /\ overview # <<>>
    /\ Len(genCalls) = Len(overview)
    /\ \A x \in 1..Len(genCalls) : genCalls[x].ok
    /\ sPc # "phase2"

\* C13: a staged run of the create command in which every initiative
\* succeeds writes no file: neither the partial-success snapshot nor the
\* all-failed snapshot exists at any later point of the run.
C13_NoSnapshotWhenAllSucceed ==
    AllSucceeded =>
        /\ PartialFile \notin DOMAIN files
        /\ FailureFile \notin DOMAIN files
        /\ failedInitiatives = <<>>
        /\ Len(projectStructure.initiatives) = Len(overview)

C13_Witness ==
    /\ AllSucceeded
    /\ Len(overview) = 2
    /\ sPc = "finished"
    /\ files = EmptyMap

\* C14 as claimed: over a sequence of staged runs on one document, when a
\* run with zero phase-2 failures has ended no snapshot file exists, also
\* when an earlier run had failures and wrote a snapshot.
C14_NoSnapshotAfterCleanRun ==
    (AllSucceeded /\ sPc = "finished") =>
        /\ PartialFile \notin DOMAIN files
        /\ FailureFile \notin DOMAIN files

\* Phase 1 of the staged decomposition is over and gave no overview
Phase1Failed ==
    /\ mode = "cli"
    /\ sPc # "decompose"
    /\ overview = <<>>

\* C15: when phase 1 of the staged decomposition fails, for whatever reason
\* (transport error, truncation, non-text content, unparsable text, schema),
\* the command has failed with that error: no capability generation has been
\* requested, no snapshot written, no hierarchy produced, no tracker call
\* made; a run that goes on to phase 2 holds a valid overview.
C15_Phase1FailureFailsRun ==
    /\ Phase1Failed =>
        /\ sPc = "failed"
        /\ sErr.name \in {"AIDecomposerError", "ZodError"}
        /\ genCalls = <<>>
        /\ initiatives = <<>>
        /\ failedInitiatives = <<>>
        /\ files = EmptyMap
        /\ projectStructure = NoProject
        /\ TrackerUntouched
    /\ (mode = "cli" /\ sPc = "phase2") => ValidOverview(overview)

C15_Witness ==
    /\ Phase1Failed
    /\ sPc = "failed"
    /\ sErr.kind = "AI response was truncated during initiative generation"

\* The single-pass decomposition has been requested and has answered
SinglePassAnswered == mode = "single" /\ Len(genCalls) = 1

\* C16: in single-pass decomposition, whenever the backend signals
\* truncation the command has failed with the truncation error and holds no
\* hierarchy, whatever the returned text is (also a text that parses and
\* validates); the truncation error is raised for no other response, so it
\* differs from the unparsable-output and schema-invalid errors; and its
\* message points to the two-phase mode.
C16_TruncationNeverAHierarchy ==
    SinglePassAnswered =>
        /\ genCalls[1].stop_reason = "max_tokens" =>
                /\ sPc = "failed"
                /\ sErr = TruncatedSinglePass
                /\ "--two-phase" \in sErr.advice
                /\ projectStructure = NoProject
                /\ TrackerUntouched
        /\ (genCalls[1].stop_reason # "max_tokens" /\ sPc = "failed")
                => sErr.kind # TruncatedSinglePass.kind
        /\ ~genCalls[1].ok =>
                /\ sErr = genCalls[1].error
                /\ projectStructure = NoProject

\* A truncated response whose text would parse and validate
C16_Witness ==
    /\ SinglePassAnswered
    /\ genCalls[1].stop_reason = "max_tokens"
    /\ genCalls[1].wellFormed
    /\ sErr = TruncatedSinglePass

\* Phase 2 of the create command ended with some initiatives generated and
\* some failed
PartialRun ==
    /\ mode = "cli"
    /\ sPc \notin {"decompose", "phase2"}
    /\ initiatives # <<>>
    /\ failedInitiatives # <<>>

FailedIds == {failedInitiatives[x].initiative.id : x \in 1..Len(failedInitiatives)}

\* C17: a partial-success staged run goes on to materialization (unless it
\* is a dry run): the repository step is the next one, generateIssues is
\* given the hierarchy of the initiatives that succeeded, every item created
\* belongs to an entity of such an initiative and none carries a failed
\* initiative's id, and when generateIssues has returned there is exactly one
\* item for every entity of the initiatives that succeeded.
C17_PartialRunMaterializes ==
    PartialRun =>
        /\ sPc # "failed" \/ ncalls > 0
        /\ (sPc = "done" /\ ~options.dryRun) => ENABLED CommandGetRepository
        /\ sPc = "issues" => project = projectStructure
        /\ \A x \in IssueNumbers :
                /\ issues[x].ent \in ExpectedEntities(projectStructure)
                /\ Succeeded(projectStructure.initiatives[issues[x].ent[1]].id)
                /\ issues[x].labels \cap FailedIds = {}
        /\ (sPc \in {"issues", "finished"} /\ pc = <<"done", "">>) =>
                /\ \A e \in ExpectedEntities(projectStructure) :
                        Cardinality(IssuesAt(e)) = 1
                /\ Len(issues) = Cardinality(ExpectedEntities(projectStructure))
                /\ Len(allIssues) = Len(issues)

\* One of two initiatives failed, and the items of the other one (initiative,
\* capability, deliverable) have all been created
C17_Witness ==
    /\ PartialRun
    /\ Len(overview) = 2
    /\ Len(failedInitiatives) = 1
    /\ sPc = "finished"
    /\ pc = <<"done", "">>
    /\ Len(issues) = 3

----------------------------------------------------------------------------
\* Vocabulary of dependency linking

DepPasses == {"capDeps", "delDeps"}

\* The handles of the dependencies of the n-th item of a pass that the
\* resolver knows, in declared order
ResolvedDeps(P, n) ==
    LET deps == DepEntity(P, n).dependencies
    IN  SelectSeq([x \in 1..Len(deps) |-> Lookup(DepMap(P), deps[x])],
                  LAMBDA v : v # 0)

\* The handle of the n-th item of a pass, 0 when the resolver has none
ItemNumber(P, n) == Lookup(DepMap(P), DepEntity(P, n).id)

CommentsOn(x) == {m \in 1..Len(comments) : comments[m].issue = x}

LastOf(seq) == seq[Len(seq)]

\* A link attempt (node-id lookup or link mutation) has just failed
EdgeAttemptFailed ==
    /\ lastCall.op \in {"getIssue", "graphql"}
    /\ lastCall.status # 200

\* C18: a failed native blocking-link attempt for an edge, the node-id
\* lookups included, raises nothing: the step that fails keeps the edge's
\* handle for the item's comment and moves to the item's next edge; after it
\* the next step of the item (another edge, or the comment) can be taken; and
\* when dependency linking has returned every item with a resolvable
\* dependency has a comment that lists all of them.
C18_EdgeFailureAbsorbed ==
    /\ [][(CallStep /\ lastCall'.op \in {"getIssue", "graphql"}
                /\ lastCall'.status # 200) =>
            /\ err' = NoError
            /\ pc' = <<pc[1], "edge">>
            /\ c' = c
            /\ d' = d + 1
            /\ dependencyReferences'
                    = Append(dependencyReferences, DepNumber(pc[1]))
            /\ comments' = comments]_vars
    /\ [](EdgeAttemptFailed =>
            /\ err = NoError
            /\ pc = <<lastCall.kind, "edge">>
            /\ dependencyReferences # <<>>
            /\ \/ ENABLED DepSourceId(lastCall.kind)
               \/ ENABLED DepEdgeDrop(lastCall.kind)
               \/ ENABLED DepComment(lastCall.kind))
    /\ [](Done =>
            \A P \in DepPasses : \A n \in 1..Len(DepItems(P)) :
                (ItemNumber(P, n) # 0 /\ ResolvedDeps(P, n) # <<>>) =>
                    \E m \in CommentsOn(ItemNumber(P, n)) :
                        comments[m].references = ResolvedDeps(P, n))

\* Of the two resolvable edges of an item one could not be linked; the run
\* went on to the end and the item's comment lists both
C18_Witness ==
    /\ Done
    /\ failures > 0
    /\ \E m \in 1..Len(comments) :
            /\ Len(comments[m].references) = 2
            /\ Cardinality({b \in blocks :
                    b.blocked = NodeId(comments[m].issue)}) = 1

\* C19 as claimed: a failed comment call during dependency linking is
\* absorbed: nothing is raised and generateIssues does not fail.
C19_CommentFailureAbsorbed ==
    (lastCall.op = "createComment" /\ lastCall.status # 200)
        => (err = NoError /\ ~Failed)

\* Dependency linking stands at an edge whose dependency id has no handle
AtUnresolvedEdge ==
    /\ pc[1] \in DepPasses
    /\ pc[2] = "edge"
    /\ d <= Len(DepEntity(pc[1], c).dependencies)
    /\ DepNumber(pc[1]) = 0

\* C20: an edge whose dependent id or dependency id has no handle in the
\* resolver is dropped: the step raises nothing, issues no call and keeps no
\* reference; every lookup and link call is made for two handles the
\* resolver holds; a comment posted on an item lists exactly the handles of
\* the item's resolvable dependencies, in order; an item none of whose
\* dependencies is resolvable gets no comment.
C20_UnresolvedEdgesDropped ==
    /\ [][AtUnresolvedEdge =>
            /\ err' = NoError
            /\ ncalls' = ncalls
            /\ lastCall' = lastCall
            /\ d' = d + 1
            /\ pc' = pc
            /\ UNCHANGED <<depLocals, blocks, comments>>]_vars
    /\ [][(CallStep /\ lastCall'.op \in {"getIssue", "graphql"}) =>
            /\ IssueNumber(pc[1]) \in IssueNumbers
            /\ DepNumber(pc[1]) \in IssueNumbers
            /\ lastCall'.op = "graphql" =>
                    /\ lastCall'.issue = IssueNumber(pc[1])
                    /\ lastCall'.parent = DepNumber(pc[1])]_vars
    /\ [](\A m \in 1..Len(comments) :
            /\ comments[m].references # <<>>
            /\ \E P \in DepPasses : \E n \in 1..Len(DepItems(P)) :
                    /\ ItemNumber(P, n) = comments[m].issue
                    /\ comments[m].references = ResolvedDeps(P, n))
    /\ [](\A P \in DepPasses : \A n \in 1..Len(DepItems(P)) :
            (ItemNumber(P, n) # 0 /\ ResolvedDeps(P, n) = <<>>) =>
                CommentsOn(ItemNumber(P, n)) = {})

\* The run ended with a comment that lists one of an item's two
\* dependencies, the other one being unresolvable, and with an item whose
\* only dependency is unresolvable and which has no comment
C20_Witness ==
    /\ Done
    /\ \E P \in DepPasses : \E n \in 1..Len(DepItems(P)) :
            /\ Len(DepEntity(P, n).dependencies) = 2
            /\ Len(ResolvedDeps(P, n)) = 1
            /\ CommentsOn(ItemNumber(P, n)) # {}
    /\ \E P \in DepPasses : \E n \in 1..Len(DepItems(P)) :
            /\ Len(DepEntity(P, n).dependencies) = 1
            /\ ResolvedDeps(P, n) = <<>>
            /\ CommentsOn(ItemNumber(P, n)) = {}

\* The native blocking links that block item x
BlockersOf(x) == {b \in blocks : b.blocked = NodeId(x)}

\* C21: no item ever has more than one dependency comment; a comment is
\* posted only when all edges of the item have been gone through, and no
\* link attempt is made for an item that already has its comment; when
\* dependency linking has returned, every item with a resolvable dependency
\* has exactly one comment; and a comment has the "also linked" wording
\* exactly when a native blocking link onto its item exists.
C21_OneCommentAfterLinks ==
    /\ [](\A x \in IssueNumbers : Cardinality(CommentsOn(x)) <= 1)
    /\ [][comments' # comments =>
            /\ pc[1] \in DepPasses
            /\ pc[2] = "edge"
            /\ d > Len(DepEntity(pc[1], c).dependencies)
            /\ Len(comments') = Len(comments) + 1
            /\ LastOf(comments').issue = IssueNumber(pc[1])
            /\ pc' = <<pc[1], "item">>
            /\ c' = c + 1]_vars
    /\ [][(CallStep /\ lastCall'.op \in {"getIssue", "graphql"}) =>
            CommentsOn(IssueNumber(pc[1])) = {}]_vars
    /\ [](Done =>
            \A P \in DepPasses : \A n \in 1..Len(DepItems(P)) :
                (ItemNumber(P, n) # 0 /\ ResolvedDeps(P, n) # <<>>) =>
                    Cardinality(CommentsOn(ItemNumber(P, n))) = 1)
    /\ [](\A m \in 1..Len(comments) :
            comments[m].linked <=> BlockersOf(comments[m].issue) # {})

\* The run ended with a comment in the "also linked" wording and one in the
\* plain wording
C21_Witness ==
    /\ Done
    /\ \E m \in 1..Len(comments) :
            comments[m].linked /\ Len(comments[m].references) = 2
    /\ \E m \in 1..Len(comments) : ~comments[m].linked

\* The hierarchy declares that the n-th item of pass P depends on an entity
\* whose item is x
DeclaresDependency(P, n, x) ==
    \E y \in 1..Len(DepEntity(P, n).dependencies) :
        Lookup(DepMap(P), DepEntity(P, n).dependencies[y]) = x

\* C22: every native blocking link that exists has the item of a declared
\* dependency as the blocker and the item of the dependent entity as the
\* blocked one, for capability and for deliverable edges; the step that
\* creates a link creates it from the dependency's item to the dependent's.
C22_DependencyBlocksDependent ==
    /\ [](\A b \in blocks :
            \E P \in DepPasses : \E n \in 1..Len(DepItems(P)) :
                \E x \in IssueNumbers :
                    /\ b.blocked = NodeId(ItemNumber(P, n))
                    /\ b.blocker = NodeId(x)
                    /\ DeclaresDependency(P, n, x))
    /\ [][blocks' # blocks =>
            /\ pc = <<pc[1], "link">>
            /\ blocks' = blocks \cup
                    {[blocker |-> NodeId(DepNumber(pc[1])),
                      blocked |-> NodeId(IssueNumber(pc[1]))]}
            /\ DepNumber(pc[1]) # IssueNumber(pc[1])]_vars

\* A capability edge and a deliverable edge have both been linked
C22_Witness ==
    /\ Done
    /\ project = ProjectDeps
    /\ \E b \in blocks : issues[b.blocked[2]].kind = "cap"
    /\ \E b \in blocks : issues[b.blocked[2]].kind = "del"

\* The resolver holds a handle for the entity at position e
Registered(e) ==
    IF Len(e) = 1
    THEN Lookup(initiativeIdToIssueNumber, InitiativeAt(e).id) # 0
    ELSE IF Len(e) = 2
    THEN Lookup(capabilityIdToIssueNumber, CapabilityAt(e).id) # 0
    ELSE Lookup(deliverableIdToIssueNumber, DeliverableAt(e).id) # 0

CapabilityIds(p) ==
    {p.initiatives[pos[1]].capabilities[pos[2]].id :
        pos \in {CapPositions(p)[x] : x \in 1..Len(CapPositions(p))}}

InDependencyLinking == pc[1] \in DepPasses

\* C23: while dependency linking runs, every initiative, every capability
\* and every deliverable of an expanding capability has its item and its
\* handle in the resolver; so a capability edge that is dropped as
\* unresolvable names no capability of the hierarchy, and an edge to a
\* capability declared later or in another initiative is attempted.
C23_LinkingAfterAllItems ==
    /\ []((InDependencyLinking \/ Done) =>
            \A e \in ExpectedEntities(project) :
                /\ IssuesAt(e) # {}
                /\ Registered(e)
                /\ \A x \in IssuesAt(e) : Returned(x))
    /\ [][(AtUnresolvedEdge /\ pc[1] = "capDeps") =>
            DepEntity("capDeps", c).dependencies[d]
                \notin CapabilityIds(project)]_vars
    /\ [](Done =>
            \A n \in 1..Len(DepItems("capDeps")) :
                \A y \in 1..Len(DepEntity("capDeps", n).dependencies) :
                    DepEntity("capDeps", n).dependencies[y]
                            \in CapabilityIds(project)
                    => \E m \in CommentsOn(ItemNumber("capDeps", n)) :
                        \E r \in 1..Len(comments[m].references) :
                            comments[m].references[r]
                                = Lookup(capabilityIdToIssueNumber,
                                    DepEntity("capDeps", n).dependencies[y]))

\* The link of a capability to a capability of a later initiative is being
\* attempted
C23_Witness ==
    /\ pc = <<"capDeps", "link">>
    /\ project = ProjectDeps
    /\ DepNumber("capDeps") > IssueNumber("capDeps")
    /\ issues[DepNumber("capDeps")].ent[1] > issues[IssueNumber("capDeps")].ent[1]

\* The remote calls that create or update something in the tracker
WriteOps == {"create", "subIssue", "createLabel", "addLabels", "update",
             "graphql", "createComment"}

\* C24 as claimed: when a call is issued and the call before it was a create
\* or update call, the fixed delay has run in between.
C24_DelayAfterEveryWrite ==
    [][(CallStep /\ lastCall.op \in WriteOps) => delayed]_vars

\* The most recent call has returned or failed: its outcome is known
Settled(call) == call = NoCall \/ call.status \in {200, 403, 404, 422, 500}

KeepsEntries(old, new) ==
    \A id \in DOMAIN old : id \in DOMAIN new /\ new[id] = old[id]

\* C26 as claimed: no step of a run removes an id from one of the three
\* id-to-number maps or changes the number an id was first registered with.
C26_MapsAppendOnly ==
    [][/\ KeepsEntries(initiativeIdToIssueNumber, initiativeIdToIssueNumber')
       /\ KeepsEntries(capabilityIdToIssueNumber, capabilityIdToIssueNumber')
       /\ KeepsEntries(deliverableIdToIssueNumber,
                       deliverableIdToIssueNumber')]_vars

----------------------------------------------------------------------------
\* The same hierarchy materialized again in the same repository

\* Materializations of one hierarchy that are followed
MaxRuns == 2

\* A later command run materializes the hierarchy again: a new IssueGenerator
\* (empty maps), generateIssues on the same structure, the same repository.
GenerateAgain ==
    /\ pc = <<"done", "">>
    /\ Len(issues) < MaxRuns * Len(allIssues)
    /\ pc' = <<"pass1", "create">>
    /\ i' = 1
    /\ c' = 1
    /\ k' = 1
    /\ d' = 1
    /\ data' = 0
    /\ capabilityNumber' = 0
    /\ allIssues' = <<>>
    /\ initiativeIdToIssueNumber' = EmptyMap
    /\ capabilityIdToIssueNumber' = EmptyMap
    /\ deliverableIdToIssueNumber' = EmptyMap
    /\ dependencyReferences' = <<>>
    /\ linkedDependencies' = <<>>
    /\ err' = NoError
    /\ delayed' = TRUE
    /\ UNCHANGED <<project, tracker, lastCall, ncalls, failures>>
    /\ UNCHANGED <<stagedVars, moreVars>>

TwiceNext ==
    \/ GenNext
    \/ GenerateAgain

\* One initiative, a capability with two deliverables and a capability that
\* depends on it; each level has one dependency on an id that is in no map.
ProjectChain ==
    [initiatives |-> <<
        Initiative("initiative-1", "I1", <<
            Capability("capability-1-1", "initiative-1", "C11", TRUE,
                << Deliverable("deliverable-1-1-1", "capability-1-1", "D111",
                        <<"deliverable-9-9-9">>),
                   Deliverable("deliverable-1-1-2", "capability-1-1", "D112",
                        <<"deliverable-1-1-1">>) >>,
                <<>>, <<"capability-9-9">>),
            Capability("capability-1-2", "initiative-1", "C12", FALSE,
                <<>>, <<"t1">>, <<"capability-1-1">>) >>) >>]

\* The hierarchies that are materialized more than once
TwiceProjects == {ProjectUniform, ProjectFlags, ProjectSameId, ProjectChain}

TwiceInit ==
    /\ project \in TwiceProjects
    /\ pc = <<"pass1", "create">>
    /\ GenFresh
    /\ MoreIdle
    /\ StagedIdle

SpecTwice == TwiceInit /\ [][TwiceNext]_vars

\* The number of items one materialization of the hierarchy p creates
ItemCount(p) == Cardinality(ExpectedEntities(p))

\* C27: when a materialization has returned, the items it returned are the
\* last ItemCount items of the repository, one new item per entity (none is
\* an item of an earlier run), the repository holds a whole multiple of
\* ItemCount items, and the items of a later run repeat, entity by entity,
\* the items of the run before.
C27_TwoIndependentSets ==
    Done =>
        /\ Len(allIssues) = ItemCount(project)
        /\ Len(issues) % ItemCount(project) = 0
        /\ \A j \in 1..Len(allIssues) :
            allIssues[j].number = Len(issues) - ItemCount(project) + j
        /\ \A n \in 1..Len(issues) :
            n > ItemCount(project) =>
                /\ issues[n].kind = issues[n - ItemCount(project)].kind
                /\ issues[n].ent = issues[n - ItemCount(project)].ent
                /\ issues[n].title = issues[n - ItemCount(project)].title

C27_Witness ==
    /\ Done
    /\ project = ProjectChain
    /\ Len(issues) = 2 * ItemCount(project)
    /\ allIssues[1].number = ItemCount(project) + 1

----------------------------------------------------------------------------
\* The shape of a hierarchy the decomposition hands on

\* No id occurs twice in the sequence of entities
DistinctIds(seq) ==
    \A x, y \in 1..Len(seq) : seq[x].id = seq[y].id => x = y

\* C28 as claimed: in the hierarchy the decomposition returned, the
\* capability ids of one initiative are pairwise distinct and the deliverable
\* ids of one capability are pairwise distinct.
C28_IdsDistinctWithinOwner ==
    \A a \in 1..Len(projectStructure.initiatives) :
        LET caps == projectStructure.initiatives[a].capabilities
        IN  /\ DistinctIds(caps)
            /\ \A b \in 1..Len(caps) : DistinctIds(caps[b].deliverables)

\* C29 as claimed: in the hierarchy the decomposition returned, a capability
\* has deliverables exactly when it is flagged to expand into deliverables.
C29_FlagMatchesDeliverables ==
    \A a \in 1..Len(projectStructure.initiatives) :
        \A b \in 1..Len(projectStructure.initiatives[a].capabilities) :
            LET cap == projectStructure.initiatives[a].capabilities[b]
            IN  cap.shouldCreateSubIssues <=> Len(cap.deliverables) > 0

\* C30: every initiative of the hierarchy the decomposition returned, and
\* every initiative phase 2 has kept so far, has at least one capability; an
\* initiative that has none is in neither list.
C30_EveryInitiativeHasCapability ==
    /\ \A x \in 1..Len(projectStructure.initiatives) :
        Len(projectStructure.initiatives[x].capabilities) >= 1
    /\ \A x \in 1..Len(initiatives) :
        Len(initiatives[x].capabilities) >= 1
    /\ \A x \in 1..Len(failedInitiatives) :
        /\ \A y \in 1..Len(initiatives) :
            initiatives[y].id # failedInitiatives[x].initiative.id
        /\ \A y \in 1..Len(projectStructure.initiatives) :
            projectStructure.initiatives[y].id
                # failedInitiatives[x].initiative.id

C30_Witness ==
    /\ mode = "cli"
    /\ sPc = "done"
    /\ Len(projectStructure.initiatives) = 1
    /\ Len(failedInitiatives) = 1
    /\ failedInitiatives[1].error.name = "ZodError"
    /\ Len(projectStructure.initiatives[1].capabilities) >= 1

----------------------------------------------------------------------------
\* The create command as a whole

\* C31: in a dry run the command issues no remote call to the tracker: no
\* repository, label, item, link, comment or project call is made, the
\* repository stays as it was and generateIssues is never started, whatever
\* the decomposition gave.
C31_DryRunMakesNoTrackerCall ==
    /\ [](options.dryRun =>
            /\ ncalls = 0
            /\ lastCall = NoCall
            /\ issues = <<>>
            /\ subIssues = {}
            /\ repoLabels = {}
            /\ blocks = {}
            /\ comments = <<>>
            /\ pc = <<"idle", "">>)
    /\ [][options.dryRun => ~CallStep]_vars

C31_Witness ==
    /\ options.dryRun
    /\ sPc = "finished"
    /\ mode = "cli"
    /\ Len(projectStructure.initiatives) >= 1
    /\ Len(failedInitiatives) >= 1

----------------------------------------------------------------------------
\* Termination of generateIssues

\* Every awaited call returns or fails, so a run that can take a step takes one.
SpecFair == Init /\ [][Next]_vars /\ WF_vars(Next)

\* C32: every run of generateIssues comes to an end and stays there: it has
\* returned the list of created items with no error, or it has thrown an
\* error, for every hierarchy and every pattern of failing calls.
C32_RunTerminates ==
    <>[](\/ Done /\ err = NoError
         \/ Failed /\ err # NoError)

C32_Witness ==
    /\ Failed
    /\ err # NoError
    /\ Len(allIssues) >= 1
    /\ project = ProjectDeps

----------------------------------------------------------------------------
\* PRDProcessor.processPRD

\* `content.length < 100` and `content.length > 100000`
PrdMinLength == 100
PrdMaxLength == 100000

\* The lengths tried, around the two limits
PrdLengths == {0, 1, 3, PrdMinLength - 1, PrdMinLength, PrdMinLength + 1,
               PrdMaxLength - 1, PrdMaxLength, PrdMaxLength + 1}

\* A file's content: `core` characters that begin and end with a character
\* that is not whitespace, `blank` whitespace characters around them, and
\* the text of its first H1 heading ("" if it has none).
PrdContent(blank, core, h1) == [blank |-> blank, core |-> core, h1 |-> h1]

\* content.length and content.trim().length
ContentLength(content) == content.blank + content.core
TrimmedLength(content) == content.core

\* The files given to processPRD: no file, a file that cannot be read, a
\* file with some content
PrdFiles ==
    { [exists |-> FALSE] }
    \cup { [exists |-> TRUE, readable |-> FALSE] }
    \cup { [exists |-> TRUE, readable |-> TRUE,
            content |-> PrdContent(blank, core, "")] :
                blank \in PrdLengths, core \in PrdLengths }
    \cup { [exists |-> TRUE, readable |-> TRUE,
            content |-> PrdContent(blank, core, "Test Project")] :
                blank \in PrdLengths, core \in PrdLengths \ {0, 1} }

PrdThrown(message) ==
    [state |-> "thrown", name |-> "PRDProcessorError", message |-> message]

\* extractMetadata and `{...metadata, rawContent: content}`
PrdMetadata(content) ==
    [state |-> "returned",
     title |-> IF content.h1 = "" THEN "Untitled Project" ELSE content.h1,
     rawContent |-> content]

\* Mutant of ProcessPRD: the length limits are tested before the blank test.
ProcessPRDLengthFirst(file) ==
    IF ~file.exists THEN PrdThrown("PRD file not found")
    ELSE IF ~file.readable THEN PrdThrown("Failed to read PRD file")
    ELSE IF ContentLength(file.content) < PrdMinLength
    THEN PrdThrown("PRD file is too short (minimum 100 characters)")
    ELSE IF ContentLength(file.content) > PrdMaxLength
    THEN PrdThrown("PRD file is too large (maximum 100,000 characters)")
    ELSE IF ContentLength(file.content) = 0
            \/ TrimmedLength(file.content) = 0
    THEN PrdThrown("PRD file is empty")
    ELSE PrdMetadata(file.content)

\* processPRD: the metadata it returns or the error it throws
ProcessPRD(file) ==
    IF ~file.exists THEN PrdThrown("PRD file not found")
    ELSE IF ~file.readable THEN PrdThrown("Failed to read PRD file")
    ELSE IF ContentLength(file.content) = 0
            \/ TrimmedLength(file.content) = 0
    THEN PrdThrown("PRD file is empty")
    ELSE IF ContentLength(file.content) < PrdMinLength
    THEN PrdThrown("PRD file is too short (minimum 100 characters)")
    ELSE IF ContentLength(file.content) > PrdMaxLength
    THEN PrdThrown("PRD file is too large (maximum 100,000 characters)")
    ELSE PrdMetadata(file.content)

\* `await processor.processPRD(prdFile)`
ProcessPRDCall ==
    /\ prdResult.state = "none"
    /\ prdResult' = ProcessPRD(prd)
    /\ UNCHANGED prd
    /\ UNCHANGED <<genVars, stagedVars, pmVars, applyVars>>

PrdInit ==
    /\ prd \in PrdFiles
    /\ prdResult = [state |-> "none"]
    /\ project = NoProject
    /\ pc = <<"idle", "">>
    /\ GenFresh
    /\ StagedIdle
    /\ PmIdle
    /\ ApplyIdle

PrdNext == ProcessPRDCall

SpecPrd == PrdInit /\ [][PrdNext]_vars

\* The file exists, can be read and has a character that is not whitespace
HasText(file) ==
    file.exists /\ file.readable /\ TrimmedLength(file.content) > 0

\* C33: once processPRD has run, a missing file gave a PRDProcessorError; a
\* file with no character other than whitespace gave 'PRD file is empty',
\* whatever its length; a file with text gave 'too short' below 100
\* characters and 'too large' above 100,000; every error is a
\* PRDProcessorError and carries no metadata; and a file with text of 100 to
\* 100,000 characters was accepted with its content returned unchanged.
C33_ProcessPRDChecks ==
    prdResult.state # "none" =>
        /\ ~prd.exists =>
            prdResult = PrdThrown("PRD file not found")
        /\ (prd.exists /\ prd.readable /\ ~HasText(prd)) =>
            prdResult = PrdThrown("PRD file is empty")
        /\ (HasText(prd) /\ ContentLength(prd.content) < PrdMinLength) =>
            prdResult =
                PrdThrown("PRD file is too short (minimum 100 characters)")
        /\ (HasText(prd) /\ ContentLength(prd.content) > PrdMaxLength) =>
            prdResult =
                PrdThrown("PRD file is too large (maximum 100,000 characters)")
        /\ (HasText(prd) /\ ContentLength(prd.content) >= PrdMinLength
                /\ ContentLength(prd.content) <= PrdMaxLength) =>
            /\ prdResult.state = "returned"
            /\ prdResult.rawContent = prd.content
        /\ prdResult.state = "thrown" =>
            /\ prdResult.name = "PRDProcessorError"
            /\ DOMAIN prdResult = {"state", "name", "message"}

C33_Witness ==
    /\ prd.exists
    /\ prd.readable
    /\ prd.content.core = 0
    /\ prd.content.blank = PrdMaxLength + 1
    /\ prdResult = PrdThrown("PRD file is empty")

----------------------------------------------------------------------------
\* ProjectManager.manageProject and addIssuesToProject

\* How many issues manageProject is given at most
MaxProjectIssues == 3

\* The issue lists given to manageProject: numbers 1..n in creation order
ProjectIssueLists == { [x \in 1..n |-> x] : n \in 0..MaxProjectIssues }

\* The options createStatusField asks for
StatusOptions ==
    {"Backlog", "Ready for AI", "AI: Planning & Scaffold",
     "AI: Implementation", "Awaiting Review (HITL)", "Changes Requested",
     "Ready to Merge", "Merged / Verification", "Done"}

\* How many ProjectManager calls have thrown or come back without the
\* object asked for
PmCallsFailed ==
    Cardinality({x \in 1..Len(pmCalls) : pmCalls[x].result # "ok"})

\* What a call can come to: "ok", "empty" (an answer without the object
\* asked for) or "error" (the request threw)
PmOutcomes(op) ==
    {"ok"} \cup
    (IF PmCallsFailed >= MaxFailures THEN {}
     ELSE IF op \in {"getProject", "setItemStatus"} THEN {"error"}
     ELSE {"empty", "error"})

PmCalled(op, issue, o) ==
    pmCalls' = Append(pmCalls, [op |-> op, issue |-> issue, result |-> o])

\* `throw new ProjectManagerError(...)` out of manageProject
PmThrow(message) ==
    /\ pmErr' = message
    /\ pmPc' = "failed"

\* Mutant of PmGetProject: a project that is not found is created instead.
PmGetProjectOrCreate ==
    /\ pmPc = "start"
    /\ pmInput.existingProjectNumber # 0
    /\ \E o \in PmOutcomes("getProject") :
        /\ PmCalled("getProject", 0, o)
        /\ IF o = "ok" /\ pmInput.existingProjectNumber \in board.projects
           THEN /\ pmProject' = pmInput.existingProjectNumber
                /\ pmPc' = "loop"
                /\ UNCHANGED <<pmErr, board>>
           ELSE /\ pmProject' = Cardinality(board.projects) + 1
                /\ board' = [board EXCEPT
                        !.projects = @ \cup {Cardinality(board.projects) + 1}]
                /\ pmPc' = "field"
                /\ UNCHANGED pmErr
    /\ UNCHANGED <<pmInput, pmIdx, pmStatusField, pmItemId>>
    /\ UNCHANGED <<genVars, stagedVars, prdVars, applyVars>>

\* `if (existingProjectNumber)`: getProject, and the throw when it is null
PmGetProject ==
    /\ pmPc = "start"
    /\ pmInput.existingProjectNumber # 0
    /\ \E o \in PmOutcomes("getProject") :
        /\ PmCalled("getProject", 0, o)
        /\ IF o = "ok" /\ pmInput.existingProjectNumber \in board.projects
           THEN /\ pmProject' = pmInput.existingProjectNumber
                /\ pmPc' = "loop"
                /\ UNCHANGED pmErr
           ELSE /\ PmThrow(IF o = "ok" THEN "Project not found"
                           ELSE "Failed to get project")
                /\ UNCHANGED pmProject
    /\ UNCHANGED <<pmInput, pmIdx, pmStatusField, pmItemId, board>>
    /\ UNCHANGED <<genVars, stagedVars, prdVars, applyVars>>

\* `else`: createProject
PmCreateProject ==
    /\ pmPc = "start"
    /\ pmInput.existingProjectNumber = 0
    /\ \E o \in PmOutcomes("createProject") :
        /\ PmCalled("createProject", 0, o)
        /\ IF o = "ok"
           THEN /\ pmProject' = Cardinality(board.projects) + 1
                /\ board' = [board EXCEPT
                        !.projects = @ \cup {Cardinality(board.projects) + 1}]
                /\ pmPc' = "field"
                /\ UNCHANGED pmErr
           ELSE /\ PmThrow("Failed to create project")
                /\ UNCHANGED <<pmProject, board>>
    /\ UNCHANGED <<pmInput, pmIdx, pmStatusField, pmItemId>>
    /\ UNCHANGED <<genVars, stagedVars, prdVars, applyVars>>

\* createStatusField(project.id)
PmCreateStatusField ==
    /\ pmPc = "field"
    /\ \E o \in PmOutcomes("createStatusField") :
        /\ PmCalled("createStatusField", 0, o)
        /\ IF o = "ok"
           THEN /\ pmStatusField' = StatusOptions
                /\ board' = [board EXCEPT
                        !.fields = @ \cup {<<pmProject, StatusOptions>>}]
                /\ pmPc' = "loop"
                /\ UNCHANGED pmErr
           ELSE /\ PmThrow("Failed to create Status field")
                /\ UNCHANGED <<pmStatusField, board>>
    /\ UNCHANGED <<pmInput, pmIdx, pmProject, pmItemId>>
    /\ UNCHANGED <<genVars, stagedVars, prdVars, applyVars>>

\* addIssuesToProject: getIssueNodeId(issue.url); the catch of the loop
\* absorbs its failure
PmGetIssueNodeId ==
    /\ pmPc = "loop"
    /\ pmIdx <= Len(pmInput.issues)
    /\ \E o \in PmOutcomes("getIssueNodeId") :
        /\ PmCalled("getIssueNodeId", pmInput.issues[pmIdx], o)
        /\ IF o = "ok"
           THEN pmPc' = "add" /\ UNCHANGED pmIdx
           ELSE pmPc' = "loop" /\ pmIdx' = pmIdx + 1
    /\ UNCHANGED <<pmInput, pmProject, pmStatusField, pmItemId, board, pmErr>>
    /\ UNCHANGED <<genVars, stagedVars, prdVars, applyVars>>

\* `statusField && backlogOption`
HasBacklog(field) == field # {} /\ "Backlog" \in field

\* Mutant of PmAddItem: the status is never set.
PmAddItemNoStatus ==
    /\ pmPc = "add"
    /\ \E o \in PmOutcomes("addProjectV2ItemById") :
        /\ PmCalled("addProjectV2ItemById", pmInput.issues[pmIdx], o)
        /\ IF o = "ok"
           THEN /\ board' = [board EXCEPT
                        !.items = Append(@, pmInput.issues[pmIdx])]
                /\ pmItemId' = Len(board.items) + 1
           ELSE /\ pmItemId' = 0
                /\ UNCHANGED board
        /\ pmPc' = "loop"
        /\ pmIdx' = pmIdx + 1
    /\ UNCHANGED <<pmInput, pmProject, pmStatusField, pmErr>>
    /\ UNCHANGED <<genVars, stagedVars, prdVars, applyVars>>

\* The addProjectV2ItemById mutation and `itemId = result...?.item?.id`
PmAddItem ==
    /\ pmPc = "add"
    /\ \E o \in PmOutcomes("addProjectV2ItemById") :
        /\ PmCalled("addProjectV2ItemById", pmInput.issues[pmIdx], o)
        /\ IF o = "ok"
           THEN /\ board' = [board EXCEPT
                        !.items = Append(@, pmInput.issues[pmIdx])]
                /\ pmItemId' = Len(board.items) + 1
           ELSE /\ pmItemId' = 0
                /\ UNCHANGED board
        /\ IF o = "ok" /\ HasBacklog(pmStatusField)
           THEN pmPc' = "status" /\ UNCHANGED pmIdx
           ELSE pmPc' = "loop" /\ pmIdx' = pmIdx + 1
    /\ UNCHANGED <<pmInput, pmProject, pmStatusField, pmErr>>
    /\ UNCHANGED <<genVars, stagedVars, prdVars, applyVars>>

\* setItemStatus(projectId, itemId, statusField.id, backlogOption.id); the
\* catch of the loop absorbs its failure
PmSetItemStatus ==
    /\ pmPc = "status"
    /\ \E o \in PmOutcomes("setItemStatus") :
        /\ PmCalled("setItemStatus", pmInput.issues[pmIdx], o)
        /\ IF o = "ok"
           THEN board' = [board EXCEPT
                    !.status = @ \cup {<<pmInput.issues[pmIdx], "Backlog">>}]
           ELSE UNCHANGED board
    /\ pmPc' = "loop"
    /\ pmIdx' = pmIdx + 1
    /\ UNCHANGED <<pmInput, pmProject, pmStatusField, pmItemId, pmErr>>
    /\ UNCHANGED <<genVars, stagedVars, prdVars, applyVars>>

\* The loop is over: `return project`
PmReturn ==
    /\ pmPc = "loop"
    /\ pmIdx > Len(pmInput.issues)
    /\ pmPc' = "returned"
    /\ UNCHANGED <<pmInput, pmIdx, pmProject, pmStatusField, pmItemId, board,
                   pmCalls, pmErr>>
    /\ UNCHANGED <<genVars, stagedVars, prdVars, applyVars>>

\* manageProject is called with some issues, with or without a project
\* number, for an owner who has that project or has none
ProjectInit ==
    /\ pmInput \in [issues : ProjectIssueLists,
                    existingProjectNumber : {0, 7}]
    /\ pmPc = "start"
    /\ pmIdx = 1
    /\ pmProject = 0
    /\ pmStatusField = {}
    /\ pmItemId = 0
    /\ board \in [projects : {{}, {7}}, fields : {{}}, items : {<<>>},
                  status : {{}}]
    /\ pmCalls = <<>>
    /\ pmErr = ""
    /\ project = NoProject
    /\ pc = <<"idle", "">>
    /\ GenFresh
    /\ StagedIdle
    /\ PrdIdle
    /\ ApplyIdle

ProjectNext ==
    \/ PmGetProject
    \/ PmCreateProject
    \/ PmCreateStatusField
    \/ PmGetIssueNodeId
    \/ PmAddItem
    \/ PmSetItemStatus
    \/ PmReturn

SpecProject == ProjectInit /\ [][ProjectNext]_vars

\* The ProjectManager call op for issue x came to result r
PmCallMade(op, x, r) ==
    \E n \in 1..Len(pmCalls) :
        pmCalls[n].op = op /\ pmCalls[n].issue = x /\ pmCalls[n].result = r

\* The issues for which getIssueNodeId was called, in call order
RECURSIVE IssuesLookedUp(_)
IssuesLookedUp(calls) ==
    IF calls = <<>> THEN <<>>
    ELSE (IF Head(calls).op = "getIssueNodeId"
          THEN << Head(calls).issue >> ELSE <<>>)
         \o IssuesLookedUp(Tail(calls))

\* The issues that are items of the project
BoardItems == {board.items[n] : n \in 1..Len(board.items)}

\* C34: with a status field that has a Backlog option, every issue that was
\* added to the project has its status set to Backlog, or is having it set,
\* or the call that sets it failed; no other status is ever set; a failing
\* lookup, add or status call never makes manageProject throw; and when
\* addIssuesToProject is over every issue was taken up once, in order.
C34_AddedIssuesGetBacklog ==
    /\ HasBacklog(pmStatusField) =>
        \A x \in BoardItems :
            \/ pmPc = "status" /\ pmInput.issues[pmIdx] = x
            \/ /\ PmCallMade("setItemStatus", x, "ok")
               /\ <<x, "Backlog">> \in board.status
            \/ /\ PmCallMade("setItemStatus", x, "error")
               /\ <<x, "Backlog">> \notin board.status
    /\ \A st \in board.status : st[2] = "Backlog" /\ st[1] \in BoardItems
    /\ \A x \in BoardItems : PmCallMade("addProjectV2ItemById", x, "ok")
    /\ IssuesLookedUp(pmCalls) # <<>> => pmPc # "failed"
    /\ pmPc = "returned" => IssuesLookedUp(pmCalls) = pmInput.issues
    /\ \A m, n \in 1..Len(board.items) :
            m < n => board.items[m] < board.items[n]

C34_Witness ==
    /\ pmPc = "returned"
    /\ HasBacklog(pmStatusField)
    /\ Len(pmInput.issues) = 3
    /\ PmCallMade("addProjectV2ItemById", 1, "error")
    /\ PmCallMade("setItemStatus", 2, "error")
    /\ board.items = <<2, 3>>
    /\ board.status = {<<3, "Backlog">>}

\* The position in pmCalls of the first call of ProjectManager operation op,
\* 0 if there is none
FirstCall(op) ==
    IF \E n \in 1..Len(pmCalls) : pmCalls[n].op = op
    THEN CHOOSE n \in 1..Len(pmCalls) :
            /\ pmCalls[n].op = op
            /\ \A m \in 1..(n - 1) : pmCalls[m].op # op
    ELSE 0

\* A call of addIssuesToProject has been made
AddingStarted ==
    \E n \in 1..Len(pmCalls) :
        pmCalls[n].op \in {"getIssueNodeId", "addProjectV2ItemById",
                           "setItemStatus"}

\* C39: with a project number manageProject never calls createProject or
\* createStatusField, creates no project and no field, uses that project,
\* and throws before any issue is taken up when the project is not found;
\* without a project number it never calls getProject, and an issue is taken
\* up only after createProject and then createStatusField have succeeded.
C39_ExistingProjectNeverCreates ==
    /\ pmInput.existingProjectNumber # 0 =>
        /\ FirstCall("createProject") = 0
        /\ FirstCall("createStatusField") = 0
        /\ board.projects \subseteq {pmInput.existingProjectNumber}
        /\ board.fields = {}
        /\ pmStatusField = {}
        /\ pmProject \in {0, pmInput.existingProjectNumber}
        /\ pmInput.existingProjectNumber \notin board.projects =>
            /\ ~AddingStarted
            /\ board.items = <<>>
            /\ pmPc \in {"start", "failed"}
        /\ AddingStarted => PmCallMade("getProject", 0, "ok")
    /\ pmInput.existingProjectNumber = 0 =>
        /\ FirstCall("getProject") = 0
        /\ AddingStarted =>
            /\ pmCalls[1] = [op |-> "createProject", issue |-> 0,
                             result |-> "ok"]
            /\ pmCalls[2] = [op |-> "createStatusField", issue |-> 0,
                             result |-> "ok"]
            /\ pmProject \in board.projects
            /\ <<pmProject, StatusOptions>> \in board.fields

C39_Witness ==
    /\ pmInput.existingProjectNumber # 0
    /\ pmInput.existingProjectNumber \notin board.projects
    /\ Len(pmInput.issues) >= 1
    /\ pmPc = "failed"
    /\ pmErr = "Project not found"

----------------------------------------------------------------------------
\* The list generateIssues returns

\* A capability's item and, if it expands, its deliverables' items in
\* declared order
ItemsOfCapability(a, b, cap) ==
    << <<a, b>> >> \o
    (IF cap.shouldCreateSubIssues
     THEN [x \in 1..Len(cap.deliverables) |-> <<a, b, x>>]
     ELSE <<>>)

RECURSIVE ItemsOfCapabilities(_, _, _)
ItemsOfCapabilities(a, caps, b) ==
    IF b > Len(caps) THEN <<>>
    ELSE ItemsOfCapability(a, b, caps[b]) \o ItemsOfCapabilities(a, caps, b + 1)

RECURSIVE ItemsBelowInitiatives(_, _)
ItemsBelowInitiatives(p, a) ==
    IF a > Len(p.initiatives) THEN <<>>
    ELSE ItemsOfCapabilities(a, p.initiatives[a].capabilities, 1)
         \o ItemsBelowInitiatives(p, a + 1)

\* All initiatives in hierarchy order, then each capability followed by its
\* deliverables
CreationOrder(p) ==
    [a \in 1..Len(p.initiatives) |-> <<a>>] \o ItemsBelowInitiatives(p, 1)

\* The entities of the items returned so far, in list order
ReturnedEntities ==
    [n \in 1..Len(allIssues) |-> issues[allIssues[n].number].ent]

\* C35: the list generateIssues builds is at every moment the beginning of
\* the creation order (all initiatives in hierarchy order, then each
\* capability's item immediately followed by the items of its deliverables
\* in declared order), its items are in the order their numbers were given
\* out, and the list a run returns is the whole creation order.
C35_ReturnedInCreationOrder ==
    /\ Len(allIssues) <= Len(CreationOrder(project))
    /\ ReturnedEntities = SubSeq(CreationOrder(project), 1, Len(allIssues))
    /\ \A m, n \in 1..Len(allIssues) :
            m < n => allIssues[m].number < allIssues[n].number
    /\ Done => ReturnedEntities = CreationOrder(project)

C35_Witness ==
    /\ Done
    /\ project = ProjectUniform
    /\ ReturnedEntities = << <<1>>, <<2>>, <<1, 1>>, <<1, 1, 1>>, <<1, 2>>,
                             <<1, 2, 1>>, <<2, 1>> >>

----------------------------------------------------------------------------
\* A failed creation of a capability or deliverable item

\* The step issues the creation call of a capability or deliverable item and
\* the call fails
ChildCreateFails ==
    /\ CallStep
    /\ lastCall'.op = "create"
    /\ lastCall'.kind \in {"cap", "del"}
    /\ lastCall'.status # 200

\* C36: the step in which the creation call of a capability or deliverable
\* item fails ends the run with an error and takes nothing back: the items,
\* links, labels and comments of the repository, the three maps and the list
\* of created items stay as they were; a run that has failed issues no call
\* any more; and a run that failed on a creation has never started
\* dependency linking (no blocking link, no comment).
C36_ChildCreationFailureAborts ==
    /\ [][ChildCreateFails =>
            /\ pc' = <<"failed", "">>
            /\ err' # NoError
            /\ UNCHANGED <<tracker, maps, allIssues>>]_vars
    /\ [][Failed => ~CallStep /\ UNCHANGED <<tracker, maps, allIssues>>]_vars
    /\ []((Failed /\ err.name = "IssueGeneratorError") =>
            /\ blocks = {}
            /\ comments = <<>>
            /\ dependencyReferences = <<>>
            /\ \A n \in 1..Len(allIssues) :
                allIssues[n].number \in IssueNumbers)

C36_Witness ==
    /\ Failed
    /\ lastCall.op = "create"
    /\ lastCall.kind = "del"
    /\ lastCall.status = 500
    /\ project = ProjectDeps
    /\ Len(issues) >= 3
    /\ capabilityIdToIssueNumber # EmptyMap

----------------------------------------------------------------------------
\* Deliverables of a capability that is not flagged to expand

\* The positions of the deliverables listed under unflagged capabilities
HiddenDeliverables(p) ==
    UNION { UNION { IF p.initiatives[a].capabilities[b].shouldCreateSubIssues
                    THEN {}
                    ELSE { <<a, b, x>> : x \in
                        1..Len(p.initiatives[a].capabilities[b].deliverables) }
                    : b \in 1..Len(p.initiatives[a].capabilities) }
            : a \in 1..Len(p.initiatives) }

\* The ids of those deliverables
HiddenIds(p) ==
    { p.initiatives[e[1]].capabilities[e[2]].deliverables[e[3]].id :
        e \in HiddenDeliverables(p) }

\* The issue numbers a blocking link joins
LinkEnds(l) == {l.blocker[2], l.blocked[2]}

\* C37: a deliverable listed under a capability that is not flagged has no
\* item and no entry in any of the three maps; dependency linking never
\* takes it up as the dependent item and never resolves it as a dependency;
\* and every blocking link and every comment is between items of
\* materialized entities only.
C37_UnflaggedDeliverablesNeverMaterialized ==
    /\ \A e \in HiddenDeliverables(project) : IssuesAt(e) = {}
    /\ \A n \in IssueNumbers :
            issues[n].ent \in ExpectedEntities(project)
    /\ HiddenIds(project) \cap DOMAIN deliverableIdToIssueNumber = {}
    /\ HiddenIds(project) \cap DOMAIN capabilityIdToIssueNumber = {}
    /\ HiddenIds(project) \cap DOMAIN initiativeIdToIssueNumber = {}
    /\ (pc[1] = "delDeps" /\ pc[2] \in {"edge", "target", "link"}) =>
            DepEntity("delDeps", c).id \notin HiddenIds(project)
    /\ (pc[1] = "delDeps" /\ pc[2] \in {"target", "link"}) =>
            DepEntity("delDeps", c).dependencies[d] \notin HiddenIds(project)
    /\ \A l \in blocks : LinkEnds(l) \subseteq IssueNumbers
    /\ \A n \in 1..Len(comments) :
            /\ comments[n].issue \in IssueNumbers
            /\ \A m \in 1..Len(comments[n].references) :
                comments[n].references[m] \in IssueNumbers

C37_Witness ==
    /\ Done
    /\ project = ProjectHidden
    /\ Len(issues) = 5
    /\ Len(comments) = 1
    /\ comments[1].issue = 5
    /\ comments[1].references = <<4>>
    /\ blocks = {LinkedIssue(NodeId(4), NodeId(5))}

----------------------------------------------------------------------------
\* generateIssues called again on an IssueGenerator that has run before

\* The hierarchies given to one IssueGenerator, one after the other
ReuseProjects == {ProjectUniform, ProjectChain, ProjectHidden}

\* The first generateIssues of the instance has returned and it is called
\* again, for the same repository: allIssues and the loop positions are
\* locals and start anew, the three maps are fields and are not cleared.
GenerateOnUsedInstance ==
    /\ pc = <<"done", "">>
    /\ Len(issues) = Len(allIssues)
    /\ project' \in ReuseProjects
    /\ pc' = <<"pass1", "create">>
    /\ i' = 1
    /\ c' = 1
    /\ k' = 1
    /\ d' = 1
    /\ data' = 0
    /\ capabilityNumber' = 0
    /\ allIssues' = <<>>
    /\ dependencyReferences' = <<>>
    /\ linkedDependencies' = <<>>
    /\ err' = NoError
    /\ delayed' = TRUE
    /\ UNCHANGED <<maps, tracker, lastCall, ncalls, failures>>
    /\ UNCHANGED <<stagedVars, moreVars>>

ReuseInit ==
    /\ project \in ReuseProjects
    /\ pc = <<"pass1", "create">>
    /\ GenFresh
    /\ StagedIdle
    /\ MoreIdle

ReuseNext ==
    \/ GenNext
    \/ GenerateOnUsedInstance

SpecReuse == ReuseInit /\ [][ReuseNext]_vars

\* C38 as claimed: whenever dependency linking has resolved the two ends of
\* an edge, both issue numbers are numbers of items the current run created
\* and returned.
C38_ResolvedHandlesOfCurrentRun ==
    \A P \in {"capDeps", "delDeps"} :
        (pc[1] = P /\ pc[2] \in {"target", "link"}) =>
            /\ Returned(IssueNumber(P))
            /\ Returned(DepNumber(P))

----------------------------------------------------------------------------
\* The apply command (handleApplyCommand): a saved structure file is loaded,
\* validated and materialized

\* The hierarchies found in a saved file, valid and not
SavedStructures ==
    {ProjectUniform, ProjectChain, NoProject, ProjectNoCapabilities}

\* The file: missing, not JSON, or JSON with a projectStructure and with or
\* without a targetRepo string
StructureFiles ==
    { [state |-> st, projectStructure |-> NoProject, targetRepo |-> FALSE] :
        st \in {"missing", "unparsable"} }
    \cup
    { [state |-> "parsed", projectStructure |-> p, targetRepo |-> t] :
        p \in SavedStructures, t \in BOOLEAN }

\* Mutant of ApplyLoad: the saved hierarchy is used without
\* ProjectStructureSchema.parse.
ApplyLoadUnvalidated ==
    /\ mode = "apply"
    /\ sPc = "load"
    /\ \E repo \in BOOLEAN :
        IF structureFile.state = "missing"
        THEN sPc' = "failed" /\ UNCHANGED <<sErr, projectStructure>>
        ELSE IF structureFile.state = "unparsable"
        THEN /\ sPc' = "failed"
             /\ sErr' = ErrorOf("SyntaxError", "", "", {})
             /\ UNCHANGED projectStructure
        ELSE IF ~repo /\ ~structureFile.targetRepo
        THEN /\ sPc' = "failed"
             /\ sErr' = ErrorOf("TypeError", "", "", {})
             /\ UNCHANGED projectStructure
        ELSE /\ sPc' = "done"
             /\ projectStructure' = structureFile.projectStructure
             /\ UNCHANGED sErr
    /\ UNCHANGED <<options, mode, overview, si, initiatives,
                   failedInitiatives, genCalls, files>>
    /\ UNCHANGED <<genVars, moreVars>>

\* From `if (!fs.existsSync(structureFile))` to the target repository:
\* a missing file ends the process; JSON.parse, ProjectStructureSchema.parse
\* and savedData.targetRepo.split (reached without --repo) throw into the
\* command's catch, which ends the process.
ApplyLoad ==
    /\ mode = "apply"
    /\ sPc = "load"
    /\ \E repo \in BOOLEAN :
        IF structureFile.state = "missing"
        THEN sPc' = "failed" /\ UNCHANGED <<sErr, projectStructure>>
        ELSE IF structureFile.state = "unparsable"
        THEN /\ sPc' = "failed"
             /\ sErr' = ErrorOf("SyntaxError", "", "", {})
             /\ UNCHANGED projectStructure
        ELSE IF ~ValidProjectStructure(structureFile.projectStructure)
        THEN /\ sPc' = "failed"
             /\ sErr' = ErrorOf("ZodError", "schema", "", {})
             /\ UNCHANGED projectStructure
        ELSE IF ~repo /\ ~structureFile.targetRepo
        THEN /\ sPc' = "failed"
             /\ sErr' = ErrorOf("TypeError", "", "", {})
             /\ UNCHANGED projectStructure
        ELSE /\ sPc' = "done"
             /\ projectStructure' = structureFile.projectStructure
             /\ UNCHANGED sErr
    /\ UNCHANGED <<options, mode, overview, si, initiatives,
                   failedInitiatives, genCalls, files>>
    /\ UNCHANGED <<genVars, moreVars>>

\* `dryRun: false` in the configuration overrides; --skip-project or not
ApplyInit ==
    /\ options \in [dryRun : {FALSE}, skipProject : BOOLEAN]
    /\ mode = "apply"
    /\ overview = <<>>
    /\ sPc = "load"
    /\ si = 1
    /\ initiatives = <<>>
    /\ failedInitiatives = <<>>
    /\ genCalls = <<>>
    /\ projectStructure = NoProject
    /\ files = EmptyMap
    /\ sErr = NoFailure
    /\ project = NoProject
    /\ pc = <<"idle", "">>
    /\ GenFresh
    /\ PrdIdle
    /\ PmIdle
    /\ structureFile \in StructureFiles

ApplyNext ==
    \/ ApplyLoad
    \/ CommandGetRepository
    \/ CommandCheckOrganization
    \/ CommandCreateRepository
    \/ CommandListLabels
    \/ CommandCreateLabels
    \/ GenNext
    \/ CommandCatch
    \/ CommandManageProject
    \/ CommandSkipProject

SpecApply == ApplyInit /\ [][ApplyNext]_vars

\* The file can be read as JSON and its projectStructure passes the schema
SavedStructureValid ==
    /\ structureFile.state = "parsed"
    /\ ValidProjectStructure(structureFile.projectStructure)

\* No repository, label, issue or project operation has been performed
NoTrackerOperation ==
    /\ ncalls = 0
    /\ issues = <<>>
    /\ subIssues = {}
    /\ repoLabels = {}
    /\ blocks = {}
    /\ comments = <<>>
    /\ pmCalls = <<>>

\* C40: the apply command validates the saved structure before any tracker
\* call: with a file that is missing, unparsable or schema-invalid no
\* repository, label, issue or project operation is ever performed, and once
\* an operation has been performed the structure in use is the file's and
\* passes the schema.
C40_ApplyValidatesBeforeTracker ==
    /\ ~SavedStructureValid => NoTrackerOperation /\ sPc \in {"load", "failed"}
    /\ ~NoTrackerOperation =>
        /\ projectStructure = structureFile.projectStructure
        /\ ValidProjectStructure(projectStructure)

\* A parsed file with a schema-invalid hierarchy has been rejected with the
\* schema's error and nothing was called.
C40_Witness ==
    /\ structureFile.state = "parsed"
    /\ structureFile.projectStructure = ProjectNoCapabilities
    /\ sPc = "failed"
    /\ sErr.name = "ZodError"
    /\ ncalls = 0

====
